---- MODULE Spec2Model ----
(***************************************************************************)
(* Learnkit collaborative canvas: the WebSocket connection registry,       *)
(* liveness monitor, broadcast fanout and session handler of               *)
(* src/unnamed/part_001 (server routes), and the full-state replacement    *)
(* DatabaseStorage.replaceCanvasState of src/server/openai.ts together     *)
(* with the canvas state load of GET /api/canvases/:id/state.              *)
(***************************************************************************)
EXTENDS Integers, Sequences, FiniteSets, Bags, TLC

\* ------------------------------------------------------------------------
\* Bounds of the model
\* ------------------------------------------------------------------------
NumChans == 2
NumCanvases == 2
NumUsers == 2
MaxBroken == 1
MaxMsgs == 3

Chans == 1..NumChans
CanvasIds == 1..NumCanvases
UserIds == 1..NumUsers

\* Client-originated kinds the switch recognises, plus the spec's names
\* `join`/`leave`, which the code does not recognise (default branch).
MsgTypes == {"join-canvas", "leave-canvas", "canvas-update",
             "cursor-position", "heartbeat", "join", "leave"}

VARIABLES
    readyState,         \* ws.readyState per channel: none/open/closing/closed
    isAlive,            \* typedWs.isAlive
    wsUserId,           \* typedWs.userId   (0 = undefined)
    wsCanvasId,         \* typedWs.canvasId (0 = undefined)
    canvasConnections,  \* the registry: entries [canvasId, userId, ws]
    broken,             \* open channels whose send()/ping() throws
    outbox,             \* bag of the messages delivered by the last handler
    closeCalls,         \* close(code)/terminate() calls made by the last handler
    calls,              \* broadcastToCanvas calls made by the last handler
    lastOp,             \* the event the last handler handled
    terminated,         \* channels the liveness monitor terminated as inactive
    msgCount,           \* valid messages handled so far (bounds the exploration)
    left                \* <<channel, canvas>>: the channel's leave request for the
                        \* canvas was handled and it has sent no join request since

wsVars == <<readyState, isAlive, wsUserId, wsCanvasId, canvasConnections,
            broken, outbox, closeCalls, calls, lastOp, terminated, msgCount, left>>

\* The store and the calls of replaceCanvasState in flight.
VARIABLES
    elements,        \* rows of canvas_elements
    connections,     \* rows of connections
    nextElementId,   \* serial of canvas_elements.id
    nextConnectionId,\* serial of connections.id
    updatedAt,       \* canvases.updated_at, on a logical clock
    clock,           \* the logical clock
    pc,              \* where each replaceCanvasState call stands
    req,             \* its arguments: canvasId, elements, edgeConnections
    clientIdToDbId,  \* its map from client ids to database ids
    additionalIdMap, \* its map from alternate ids to client ids
    cursor,          \* index of the element or connection it handled last
    result,          \* what the call returned
    callCount,       \* calls started by each caller
    completed,       \* callers in the order their calls returned true
    snaps,           \* the stored state, up to durable ids, after each success
    response         \* the status the save route answered with, if it was called

storeVars == <<elements, connections, nextElementId, nextConnectionId, updatedAt,
               clock, pc, req, clientIdToDbId, additionalIdMap, cursor, result,
               callCount, completed, snaps, response>>

\* Canvases, their collaborators and the last permission decision.
VARIABLES
    canvasRows,        \* rows of canvases: owner, visibility, is_public
    collaboratorRows,  \* rows of collaborators as <<canvasId, userId>>
    check              \* the last decision of an access or save check

accessVars == <<canvasRows, collaboratorRows, check>>

vars == <<wsVars, storeVars, accessVars>>

\* ------------------------------------------------------------------------
\* Registry: Map<number, Map<number, ExtendedWebSocket>>
\* ------------------------------------------------------------------------
Entry(c, u, ws) == [canvasId |-> c, userId |-> u, ws |-> ws]

\* A lookup that returns the entries of every canvas.
AllConnections(reg, c) == reg

\* getCanvasConnections(canvasId): the entries of one canvas
getCanvasConnections(reg, c) == {e \in reg : e.canvasId = c}

\* canvasUsers.get(userId)
MapGet(reg, c, u) == {e \in reg : e.canvasId = c /\ e.userId = u}

\* A delete that removes nothing.
MapDeleteNothing(reg, c, u) == reg

\* canvasUsers.delete(userId)
MapDelete(reg, c, u) == reg \ MapGet(reg, c, u)

\* canvasUsers.set(userId, typedWs): replaces the value under the key
MapSet(reg, c, u, ws) == MapDelete(reg, c, u) \cup {Entry(c, u, ws)}

\* isSocketConnected(socket), on the ready states rs
isSocketConnected(rs, ws) == rs[ws] = "open"

\* ------------------------------------------------------------------------
\* Messages on the wire
\* ------------------------------------------------------------------------
Msg(to, type, c, u, users, payload) ==
    [to |-> to, type |-> type, canvasId |-> c, userId |-> u,
     users |-> users, payload |-> payload]

\* socket.send(message) guarded as in safeSendMessage / try-catch: one
\* delivery when the socket is open and its send does not throw.
safeSendMessage(rs, ws, m) ==
    IF isSocketConnected(rs, ws) /\ ws \notin broken THEN SetToBag({m}) ELSE EmptyBag

\* ws.close(code) / ws.terminate(): an open socket starts closing.
CloseSockets(rs, S) ==
    [ch \in Chans |-> IF ch \in S /\ rs[ch] = "open" THEN "closing" ELSE rs[ch]]

\* The code passed to close() when a connection is replaced, and the code a
\* peer observes after terminate().
NormalClosure == 1000
AbnormalClosure == 1006

CloseCall(ws, code) == [ws |-> ws, code |-> code]

\* The event a handler handled; username is the one a valid envelope
\* carried ("" when it carried none).
Op(op, ws, type, c, u) ==
    [op |-> op, ws |-> ws, type |-> type, canvasId |-> c, userId |-> u,
     username |-> ""]

\* The event loop is between handlers: what the last handler sent has left
\* the process.
Quiet == lastOp.op = "idle"

\* The deliveries of the last handler leave the process; the next event can
\* be handled.
Drain ==
    /\ ~Quiet
    /\ outbox' = EmptyBag
    /\ closeCalls' = {}
    /\ calls' = {}
    /\ lastOp' = Op("idle", 0, "", 0, 0)
    /\ UNCHANGED <<readyState, isAlive, wsUserId, wsCanvasId, canvasConnections,
                   broken, terminated, msgCount>>
    /\ UNCHANGED <<left, storeVars, accessVars>>

\* ------------------------------------------------------------------------
\* Broadcast fanout
\* ------------------------------------------------------------------------
\* The entries a broadcast skips: the sender, when excludeUserId is given
\* (0 models undefined; a registered userId is never 0).
Skipped(conns, exclude) == {e \in conns : exclude # 0 /\ e.userId = exclude}

\* A broadcast that collects nothing.
ToRemoveNothing(rs, targets) == {}

\* The entries broadcastToCanvas collects in toRemove: the socket is CLOSED
\* or CLOSING, or it is open and safeSendMessage returned false.
ToRemove(rs, targets) ==
    {e \in targets : \/ rs[e.ws] \in {"closing", "closed"}
                     \/ (isSocketConnected(rs, e.ws) /\ e.ws \in broken)}

\* broadcastToCanvas(canvasId, message, excludeUserId) on registry reg and
\* ready states rs: the registry afterwards, the deliveries (one per entry
\* whose socket is open and whose send succeeds) and the record of the call.
broadcastToCanvas(reg, rs, c, type, u, payload, exclude) ==
    LET conns   == getCanvasConnections(reg, c)
        targets == conns \ Skipped(conns, exclude)
        okay    == {e \in targets : isSocketConnected(rs, e.ws) /\ e.ws \notin broken}
        msgs    == {Msg(e.ws, type, c, u, {}, payload) : e \in okay}
    IN  [reg  |-> reg \ ToRemove(rs, targets),
         out  |-> [m \in msgs |-> Cardinality({e \in okay : e.ws = m.to})],
         call |-> [canvasId |-> c, type |-> type, userId |-> u, payload |-> payload,
                   exclude |-> exclude, conns |-> conns, rs |-> rs]]

NoBroadcast(reg) == [reg |-> reg, out |-> EmptyBag, call |-> {}]

\* ------------------------------------------------------------------------
\* Session handler: wss.on('connection') and typedWs.on('message')
\* ------------------------------------------------------------------------
OnConnection(ch) ==
    /\ Quiet
    /\ readyState[ch] = "none"
    /\ \A k \in Chans : k < ch => readyState[k] # "none"
    /\ readyState' = [readyState EXCEPT ![ch] = "open"]
    /\ isAlive' = [isAlive EXCEPT ![ch] = TRUE]
    /\ outbox' = safeSendMessage(readyState', ch,
                    Msg(ch, "server-connection-established", 0, 0, {}, 0))
    /\ closeCalls' = {}
    /\ calls' = {}
    /\ lastOp' = Op("connection", ch, "", 0, 0)
    /\ UNCHANGED <<wsUserId, wsCanvasId, canvasConnections, broken, terminated, msgCount>>
    /\ UNCHANGED <<left, storeVars, accessVars>>

\* The usernames an envelope may carry; "" is an envelope without one.
Usernames == {"", "user"}

\* A validation that asks for the username as well.
MissingRequiredOrUsername(type, c, u, name) ==
    c = 0 \/ u = 0 \/ type = "" \/ name = ""

\* !data.canvasId || !data.userId || !data.type: the username is not looked at.
MissingRequired(type, c, u, name) == c = 0 \/ u = 0 \/ type = ""

\* The handler answers a bad frame by closing the socket.
OnInvalidMessageCloses(ch, type, c, u) ==
    /\ Quiet
    /\ readyState[ch] = "open"
    /\ \E name \in Usernames : MissingRequired(type, c, u, name)
    /\ readyState' = [readyState EXCEPT ![ch] = "closing"]
    /\ outbox' = safeSendMessage(readyState, ch, Msg(ch, "error", c, u, {}, 0))
    /\ closeCalls' = {}
    /\ calls' = {}
    /\ lastOp' = Op("invalid", ch, type, c, u)
    /\ UNCHANGED <<isAlive, wsUserId, wsCanvasId,
                   canvasConnections, broken, terminated, msgCount>>
    /\ UNCHANGED <<left, storeVars, accessVars>>

\* A handler that marks the channel alive before it validates the frame.
OnInvalidMessageMarksAlive(ch, type, c, u) ==
    /\ Quiet
    /\ readyState[ch] = "open"
    /\ \E name \in Usernames : MissingRequired(type, c, u, name)
    /\ isAlive' = [isAlive EXCEPT ![ch] = TRUE]
    /\ outbox' = safeSendMessage(readyState, ch, Msg(ch, "error", c, u, {}, 0))
    /\ closeCalls' = {}
    /\ calls' = {}
    /\ lastOp' = Op("invalid", ch, type, c, u)
    /\ UNCHANGED <<readyState, wsUserId, wsCanvasId,
                   canvasConnections, broken, terminated, msgCount>>
    /\ UNCHANGED <<left, storeVars, accessVars>>

\* A frame that is not JSON, or an envelope without canvasId, userId or type:
\* an error envelope to the sender and nothing else.
OnInvalidMessage(ch, type, c, u) ==
    /\ Quiet
    /\ readyState[ch] = "open"
    /\ \E name \in Usernames : MissingRequired(type, c, u, name)
    /\ outbox' = safeSendMessage(readyState, ch, Msg(ch, "error", c, u, {}, 0))
    /\ closeCalls' = {}
    /\ calls' = {}
    /\ lastOp' = Op("invalid", ch, type, c, u)
    /\ UNCHANGED <<readyState, isAlive, wsUserId, wsCanvasId,
                   canvasConnections, broken, terminated, msgCount>>
    /\ UNCHANGED <<left, storeVars, accessVars>>

\* A handler that never finds an existing connection.
ExistingOtherNone(reg, c, u, ch) == {}

\* The existing connection of (c, u) that is not this socket.
ExistingOther(reg, c, u, ch) == {e \in MapGet(reg, c, u) : e.ws # ch}

\* Registration on every valid message: close and remove an existing other
\* connection of the pair, then set this one.
Register(reg, c, u, ch) ==
    MapSet(IF ExistingOther(reg, c, u, ch) # {} THEN MapDelete(reg, c, u) ELSE reg,
           c, u, ch)

\* The kinds the switch has a case for.
RecognizedKinds ==
    {"join-canvas", "leave-canvas", "canvas-update", "cursor-position", "heartbeat"}

\* A switch that relays every kind to the rest of the canvas.
SwitchRelaysAll(reg, rs, ch, type, c, u, p) ==
    LET b == broadcastToCanvas(reg, rs, c, type, u, p, u)
    IN  [b EXCEPT !.call = {@}]

\* A switch whose default branch answers the sender with an error envelope.
SwitchRejectsUnknown(reg, rs, ch, type, c, u, p) ==
    CASE type = "join-canvas" ->
            LET b == broadcastToCanvas(reg, rs, c, "user-joined", u, 0, u)
                active == {e.userId : e \in getCanvasConnections(reg, c)} \ {u}
            IN  [b EXCEPT !.out = safeSendMessage(rs, ch,
                                     Msg(ch, "active-users", c, 0, active, 0)) (+) @,
                          !.call = {@}]
      [] type = "leave-canvas" ->
            LET b == broadcastToCanvas(reg, rs, c, "user-left", u, 0, u)
            IN  [b EXCEPT !.reg = MapDelete(@, c, u), !.call = {@}]
      [] type \in {"canvas-update", "cursor-position"} ->
            LET b == broadcastToCanvas(reg, rs, c, type, u, p, u)
            IN  [b EXCEPT !.call = {@}]
      [] type = "heartbeat" -> NoBroadcast(reg)
      [] OTHER -> [NoBroadcast(reg) EXCEPT
                      !.out = safeSendMessage(rs, ch, Msg(ch, "error", c, u, {}, 0))]

\* A switch that also takes `join` for a join request and `leave` for a
\* leave request.
SwitchShortNames(reg, rs, ch, type, c, u, p) ==
    CASE type \in {"join-canvas", "join"} ->
            LET b == broadcastToCanvas(reg, rs, c, "user-joined", u, 0, u)
                active == {e.userId : e \in getCanvasConnections(reg, c)} \ {u}
            IN  [b EXCEPT !.out = safeSendMessage(rs, ch,
                                     Msg(ch, "active-users", c, 0, active, 0)) (+) @,
                          !.call = {@}]
      [] type \in {"leave-canvas", "leave"} ->
            LET b == broadcastToCanvas(reg, rs, c, "user-left", u, 0, u)
            IN  [b EXCEPT !.reg = MapDelete(@, c, u), !.call = {@}]
      [] type \in {"canvas-update", "cursor-position"} ->
            LET b == broadcastToCanvas(reg, rs, c, type, u, p, u)
            IN  [b EXCEPT !.call = {@}]
      [] OTHER -> NoBroadcast(reg)

\* switch (data.type): registry, deliveries and broadcast call of the branch.
Switch(reg, rs, ch, type, c, u, p) ==
    CASE type = "join-canvas" ->
            LET b == broadcastToCanvas(reg, rs, c, "user-joined", u, 0, u)
                active == {e.userId : e \in getCanvasConnections(reg, c)} \ {u}
            IN  [b EXCEPT !.out = safeSendMessage(rs, ch,
                                     Msg(ch, "active-users", c, 0, active, 0)) (+) @,
                          !.call = {@}]
      [] type = "leave-canvas" ->
            LET b == broadcastToCanvas(reg, rs, c, "user-left", u, 0, u)
            IN  [b EXCEPT !.reg = MapDelete(@, c, u), !.call = {@}]
      [] type \in {"canvas-update", "cursor-position"} ->
            LET b == broadcastToCanvas(reg, rs, c, type, u, p, u)
            IN  [b EXCEPT !.call = {@}]
      [] OTHER -> NoBroadcast(reg)

OnMessage(ch, type, c, u, p) ==
    /\ Quiet
    /\ msgCount < MaxMsgs
    /\ msgCount' = msgCount + 1
    /\ readyState[ch] = "open"
    /\ \E name \in Usernames :
          /\ ~MissingRequired(type, c, u, name)
          /\ lastOp' = [Op("message", ch, type, c, u) EXCEPT !.username = name]
    /\ LET old  == {e.ws : e \in ExistingOther(canvasConnections, c, u, ch)}
           rs1  == CloseSockets(readyState, old)
           reg1 == Register(canvasConnections, c, u, ch)
           ack  == safeSendMessage(rs1, ch,
                       Msg(ch, "connection-acknowledged", c, u,
                           {e.userId : e \in getCanvasConnections(reg1, c)}, 0))
           sw   == Switch(reg1, rs1, ch, type, c, u, p)
       IN  /\ readyState' = rs1
           /\ canvasConnections' = sw.reg
           /\ outbox' = ack (+) sw.out
           /\ closeCalls' = {CloseCall(w, NormalClosure) : w \in old}
           /\ calls' = sw.call
    /\ wsUserId' = [wsUserId EXCEPT ![ch] = u]
    /\ wsCanvasId' = [wsCanvasId EXCEPT ![ch] = c]
    /\ isAlive' = [isAlive EXCEPT ![ch] = TRUE]
    /\ left' = IF type = "leave-canvas" THEN left \cup {<<ch, c>>}
               ELSE IF type = "join-canvas" THEN left \ {<<ch, c>>}
               ELSE left
    /\ UNCHANGED <<broken, terminated>>
    /\ UNCHANGED <<storeVars, accessVars>>

\* ------------------------------------------------------------------------
\* typedWs.on('close')
\* ------------------------------------------------------------------------
\* The orders in which a forEach may visit the entries S.
Orders(S) ==
    {o \in [1..Cardinality(S) -> S] : \A e \in S : \E i \in DOMAIN o : o[i] = e}

\* Fallback scan: every entry still mapping to the closing socket is deleted
\* and a user-left is broadcast for it; an entry an earlier broadcast of the
\* scan already removed is not visited.
RECURSIVE FallbackScan(_, _, _, _)
FallbackScan(acc, rs, order, i) ==
    IF i > Len(order) THEN acc
    ELSE LET e == order[i]
         IN  IF e \notin acc.reg THEN FallbackScan(acc, rs, order, i + 1)
             ELSE LET b == broadcastToCanvas(acc.reg \ {e}, rs, e.canvasId,
                                             "user-left", e.userId, 0, 0)
                  IN  FallbackScan([reg  |-> b.reg,
                                    out  |-> acc.out (+) b.out,
                                    call |-> acc.call \cup {b.call}],
                                   rs, order, i + 1)

\* The stored-info path is taken: the socket remembers a pair and the
\* registry of that canvas has the user id as a key.
StoredInfoMatches(reg, ch) ==
    /\ wsUserId[ch] # 0
    /\ wsCanvasId[ch] # 0
    /\ MapGet(reg, wsCanvasId[ch], wsUserId[ch]) # {}

\* The close handler's effect on the registry, its deliveries and calls.
CloseHandler(reg, rs, ch, order) ==
    IF StoredInfoMatches(reg, ch)
    THEN LET b == broadcastToCanvas(MapDelete(reg, wsCanvasId[ch], wsUserId[ch]), rs,
                                    wsCanvasId[ch], "user-left", wsUserId[ch], 0, 0)
         IN  [b EXCEPT !.call = {@}]
    ELSE FallbackScan(NoBroadcast(reg), rs, order, 1)

\* The close event of a closing socket is emitted: readyState is CLOSED
\* when the handler runs.
OnClose(ch) ==
    /\ Quiet
    /\ readyState[ch] = "closing"
    /\ readyState' = [readyState EXCEPT ![ch] = "closed"]
    /\ \E order \in Orders({e \in canvasConnections : e.ws = ch}) :
         LET r == CloseHandler(canvasConnections, readyState', ch, order)
         IN  /\ canvasConnections' = r.reg
             /\ outbox' = r.out
             /\ calls' = r.call
    /\ closeCalls' = {}
    /\ lastOp' = Op("close", ch, "", wsCanvasId[ch], wsUserId[ch])
    /\ UNCHANGED <<isAlive, wsUserId, wsCanvasId, broken, terminated, msgCount>>
    /\ UNCHANGED <<left, storeVars, accessVars>>

\* The peer closes or the network drops: the socket leaves OPEN and its
\* close event follows.
PeerClose(ch) ==
    /\ Quiet
    /\ readyState[ch] = "open"
    /\ readyState' = [readyState EXCEPT ![ch] = "closing"]
    /\ outbox' = EmptyBag
    /\ closeCalls' = {}
    /\ calls' = {}
    /\ lastOp' = Op("peer-close", ch, "", 0, 0)
    /\ UNCHANGED <<isAlive, wsUserId, wsCanvasId, canvasConnections, broken,
                   terminated, msgCount>>
    /\ UNCHANGED <<left, storeVars, accessVars>>

\* An open socket's send() and ping() start to throw.
Break(ch) ==
    /\ Quiet
    /\ readyState[ch] = "open"
    /\ ch \notin broken
    /\ Cardinality(broken) < MaxBroken
    /\ broken' = broken \cup {ch}
    /\ outbox' = EmptyBag
    /\ closeCalls' = {}
    /\ calls' = {}
    /\ lastOp' = Op("break", ch, "", 0, 0)
    /\ UNCHANGED <<readyState, isAlive, wsUserId, wsCanvasId, canvasConnections,
                   terminated, msgCount>>
    /\ UNCHANGED <<left, storeVars, accessVars>>

\* ------------------------------------------------------------------------
\* Liveness monitor
\* ------------------------------------------------------------------------
\* heartbeat(): the pong handler
OnPong(ch) ==
    /\ Quiet
    /\ readyState[ch] = "open"
    /\ isAlive' = [isAlive EXCEPT ![ch] = TRUE]
    /\ outbox' = safeSendMessage(readyState, ch,
                    Msg(ch, "heartbeat-ack", wsCanvasId[ch], wsUserId[ch], {}, 0))
    /\ closeCalls' = {}
    /\ calls' = {}
    /\ lastOp' = Op("pong", ch, "", 0, 0)
    /\ UNCHANGED <<readyState, wsUserId, wsCanvasId, canvasConnections, broken,
                   terminated, msgCount>>
    /\ UNCHANGED <<left, storeVars, accessVars>>

\* wss.clients: the sockets whose close event has not been emitted
Clients == {ch \in Chans : readyState[ch] \in {"open", "closing"}}

\* A monitor that finds no client inactive.
InactiveNone(S) == {}

\* The clients one tick finds with isAlive === false.
Inactive(S) == {ch \in S : ~isAlive[ch]}

\* typedWs.ping(): the probe frame a client receives.
Ping(ch) == Msg(ch, "ping", 0, 0, {}, 0)

\* One run of the pingInterval callback over all clients.
Tick ==
    /\ Quiet
    /\ Clients # {}
    /\ LET dead     == Inactive(Clients)
           pingFail == {ch \in Clients \ dead : ch \in broken}
       IN  /\ readyState' = CloseSockets(readyState, dead \cup pingFail)
           /\ isAlive' = [ch \in Chans |-> IF ch \in Clients \ dead THEN FALSE
                                           ELSE isAlive[ch]]
           /\ closeCalls' = {CloseCall(w, AbnormalClosure) : w \in dead \cup pingFail}
           /\ terminated' = terminated \cup dead
           /\ outbox' = SetToBag({Ping(ch) : ch \in
                             {w \in Clients \ dead : isSocketConnected(readyState, w)
                                                     /\ w \notin broken}})
    /\ calls' = {}
    /\ lastOp' = Op("tick", 0, "", 0, 0)
    /\ UNCHANGED <<wsUserId, wsCanvasId, canvasConnections, broken, msgCount>>
    /\ UNCHANGED <<left, storeVars, accessVars>>

\* ------------------------------------------------------------------------
\* Specification of the real-time fabric
\* ------------------------------------------------------------------------
NumPayloads == 1
Payloads == 1..NumPayloads

WsInit ==
    /\ readyState = [ch \in Chans |-> "none"]
    /\ isAlive = [ch \in Chans |-> FALSE]
    /\ wsUserId = [ch \in Chans |-> 0]
    /\ wsCanvasId = [ch \in Chans |-> 0]
    /\ canvasConnections = {}
    /\ broken = {}
    /\ outbox = EmptyBag
    /\ closeCalls = {}
    /\ calls = {}
    /\ lastOp = Op("idle", 0, "", 0, 0)
    /\ terminated = {}
    /\ msgCount = 0
    /\ left = {}

\* ========================================================================
\* Persistence: DatabaseStorage.replaceCanvasState and the canvas state load
\* ========================================================================
MaxNodes == 2
MaxEdges == 1
MaxAliases == 1
MaxStyleKeys == 1
MaxCalls == 2

\* The saver of the sequential runs, and the two savers that interleave.
Saver == 1
Procs == {1, 2}

\* An absent key (undefined) of a payload.
None == "none"

\* Ephemeral identifiers minted by the editing session.
NodeId(i) == "n" \o ToString(i)
Ids == {NodeId(i) : i \in 1..MaxNodes}
\* An alternate identifier a node payload may embed, and an identifier that
\* names nothing.
Alt == "alt"
Ghost == "ghost"
Refs == Ids \cup {Alt, Ghost}

\* ---- the submitted state -------------------------------------------------
NodeInput(id, hasType, c1, c2, s1) ==
    [id |-> id, hasType |-> hasType, hasContent |-> TRUE,
     content |-> [clientId |-> c1, _clientId |-> c2],
     style |-> [clientId |-> s1]]

\* An element submitted without data.content.
NodeWithoutContent(id, hasType, s1) ==
    [NodeInput(id, hasType, None, None, s1) EXCEPT !.hasContent = FALSE]

\* A style that carries the database ids of an earlier save as well (0 is
\* an absent database id).
StampedEdgeStyle(sci, si, tci, ti, sdb, tdb) ==
    [sourceClientId |-> sci, sourceId |-> si, targetClientId |-> tci, targetId |-> ti,
     sourceDbId |-> sdb, targetDbId |-> tdb]

EdgeStyle(sci, si, tci, ti) == StampedEdgeStyle(sci, si, tci, ti, 0, 0)

EdgeInput(source, target, style) ==
    [source |-> source, target |-> target, style |-> style]

NoStyle == EdgeStyle(None, None, None, None)

\* The value of an absent key k.
Absent(k) == IF k \in {"sourceDbId", "targetDbId"} THEN 0 ELSE None

\* Number of keys a payload record r holds.
KeysIn(r) == Cardinality({k \in DOMAIN r : r[k] # Absent(k)})

AliasCount(n) == KeysIn(n.content) + KeysIn(n.style)

\* Nodes with the id NodeId(i): with or without a kind, embedding the
\* alternate id under any of the harvested keys.
NodesOf(i) ==
    {NodeInput(NodeId(i), t, c1, c2, s1) :
        t \in BOOLEAN, c1 \in {None, Alt}, c2 \in {None, Alt}, s1 \in {None, Alt}}

RECURSIVE SumAliases(_, _)
SumAliases(ns, i) == IF i > Len(ns) THEN 0 ELSE AliasCount(ns[i]) + SumAliases(ns, i + 1)

\* Node lists n1, .., nk with distinct ephemeral ids.
NodeListsOf(k) ==
    {ns \in [1..k -> UNION {NodesOf(i) : i \in 1..k}] :
        /\ \A i \in 1..k : ns[i].id = NodeId(i)
        /\ SumAliases(ns, 1) <= MaxAliases}

NodeLists == UNION {NodeListsOf(k) : k \in 0..MaxNodes}

EdgeStyles ==
    {st \in {EdgeStyle(sci, si, tci, ti) : sci \in {None} \cup Refs, si \in {None} \cup Refs,
                                          tci \in {None} \cup Refs, ti \in {None} \cup Refs} :
        KeysIn(st) <= MaxStyleKeys}

EdgeInputs == {EdgeInput(s, t, st) : s \in Refs, t \in Refs, st \in EdgeStyles}

EdgeLists == UNION {[1..k -> EdgeInputs] : k \in 0..MaxEdges}

\* The arguments of a call; N and E keep what the client submitted.
Request(c, ns, es) ==
    [canvasId |-> c, elements |-> ns, connections |-> es, N |-> ns, E |-> es]

Requests == {Request(1, ns, es) : ns \in NodeLists, es \in EdgeLists}

\* Plain requests for the interleaved calls: typed nodes without aliases and
\* edges without style.
PlainNodes(k) == [i \in 1..k |-> NodeInput(NodeId(i), TRUE, None, None, None)]
PlainRequestsOf(k) ==
    {Request(1, PlainNodes(k), es) :
        es \in {<<>>, <<EdgeInput(NodeId(1), NodeId(k), NoStyle)>>}}
PlainRequests == UNION {PlainRequestsOf(k) : k \in 1..MaxNodes}

NoRequest == Request(1, <<>>, <<>>)

\* ---- Map<string, ...> of one call ----------------------------------------
Keys(m) == {pr[1] : pr \in m}
Get(m, k) == (CHOOSE pr \in m : pr[1] = k)[2]
\* Map.set(k, v)
Put(m, k, v) == {pr \in m : pr[1] # k} \cup {<<k, v>>}

\* The alternate ids harvested from an element's content and style.
Harvest(el) == {el.content.clientId, el.content._clientId, el.style.clientId} \ {None}

RECURSIVE PutAll(_, _, _)
PutAll(m, ks, v) ==
    IF ks = {} THEN m
    ELSE LET k == CHOOSE x \in ks : TRUE IN PutAll(Put(m, k, v), ks \ {k}, v)

\* A stamping that keeps the ids the submitted payloads already hold.
ElementRowKeepsSubmitted(dbId, c, el, by) ==
    [id |-> dbId, canvasId |-> c,
     content |-> [clientId |-> IF el.content.clientId # None
                               THEN el.content.clientId ELSE el.id,
                  _clientId |-> IF el.content._clientId # None
                                THEN el.content._clientId ELSE el.id],
     style |-> [clientId |-> IF el.style.clientId # None THEN el.style.clientId ELSE el.id],
     by |-> by]

\* The row inserted for an element: styleObj and contentObj stamp the client
\* id over whatever the submitted payloads held (`by` records the caller).
ElementRow(dbId, c, el, by) ==
    [id |-> dbId, canvasId |-> c,
     content |-> [clientId |-> el.id, _clientId |-> el.id],
     style |-> [clientId |-> el.id],
     by |-> by]

\* resolveClientId(id)
resolveClientId(primary, additional, id) ==
    IF id \in Keys(primary) THEN id
    ELSE IF id \in Keys(additional) THEN Get(additional, id)
    ELSE None

\* A choice that prefers the ...Id key.
FromStyleIdFirst(clientIdKey, idKey) == IF idKey # None THEN idKey ELSE clientIdKey

\* sourceFromStyle / targetFromStyle: the ...Id key, overwritten by the
\* ...ClientId key when that is present.
FromStyle(clientIdKey, idKey) == IF clientIdKey # None THEN clientIdKey ELSE idKey

\* One endpoint after preprocessing: replaced only when the direct id does
\* not resolve and the id taken from the style does.
Preprocessed(primary, additional, direct, fromStyle) ==
    IF resolveClientId(primary, additional, direct) = None /\ fromStyle # None
       /\ resolveClientId(primary, additional, fromStyle) # None
    THEN resolveClientId(primary, additional, fromStyle)
    ELSE direct

\* The connection after the preprocessing loop.
Preprocess(primary, additional, conn) ==
    IF conn.source = None \/ conn.target = None THEN conn
    ELSE [conn EXCEPT
            !.source = Preprocessed(primary, additional, conn.source,
                          FromStyle(conn.style.sourceClientId, conn.style.sourceId)),
            !.target = Preprocessed(primary, additional, conn.target,
                          FromStyle(conn.style.targetClientId, conn.style.targetId))]

\* A filter that lets every connection through.
IsValidAlways(primary, conn) == TRUE

\* validConnections filter, with the lookup guard of the insert loop.
IsValid(primary, conn) ==
    /\ conn.source # None
    /\ conn.target # None
    /\ conn.source \in Keys(primary)
    /\ conn.target \in Keys(primary)

\* The database id of a client id; undefined is 0.
DbIdOf(primary, id) == IF id \in Keys(primary) THEN Get(primary, id) ELSE 0

\* The style stored with a connection: the resolved ids first, then the
\* submitted style spread over them.
ConnectionStyle(primary, conn) ==
    [sourceClientId |-> IF conn.style.sourceClientId # None
                        THEN conn.style.sourceClientId ELSE conn.source,
     targetClientId |-> IF conn.style.targetClientId # None
                        THEN conn.style.targetClientId ELSE conn.target,
     sourceDbId |-> IF conn.style.sourceDbId # 0
                    THEN conn.style.sourceDbId ELSE DbIdOf(primary, conn.source),
     targetDbId |-> IF conn.style.targetDbId # 0
                    THEN conn.style.targetDbId ELSE DbIdOf(primary, conn.target),
     sourceId |-> conn.style.sourceId,
     targetId |-> conn.style.targetId]

\* The row inserted for a valid connection (`idx` records which submitted
\* edge it is, `by` the caller).
ConnectionRow(dbId, c, primary, conn, idx, by) ==
    [id |-> dbId, canvasId |-> c,
     sourceId |-> DbIdOf(primary, conn.source),
     targetId |-> DbIdOf(primary, conn.target),
     style |-> ConnectionStyle(primary, conn),
     idx |-> idx, by |-> by]

\* ---- PUT /api/canvases/:id/state ------------------------------------------
\* enhancedElements: the element's id written into its style and content.
enhancedElement(el) ==
    [el EXCEPT !.style = [clientId |-> el.id],
               !.content = [clientId |-> el.id, _clientId |-> el.id],
               !.hasContent = TRUE]

\* enhancedConnections: the connection's source and target written into its
\* style, over what the style held.
enhancedConnection(conn) ==
    [conn EXCEPT !.style = [@ EXCEPT !.sourceClientId = conn.source,
                                     !.sourceId = conn.source,
                                     !.targetClientId = conn.target,
                                     !.targetId = conn.target]]

\* What the route hands to storage.replaceCanvasState.
Enhanced(r) ==
    [r EXCEPT !.elements = [i \in DOMAIN r.elements |-> enhancedElement(r.elements[i])],
              !.connections = [i \in DOMAIN r.connections |->
                                  enhancedConnection(r.connections[i])]]

\* ---- replaceCanvasState, one database statement per step ------------------
Steps == {"deleteElements", "deleteConnections", "insertElements",
          "insertConnections", "updateCanvas"}

\* Where the call goes after the statement it is at.
AfterDeletes(r) ==
    IF Len(r.elements) > 0 THEN "insertElements"
    ELSE IF Len(r.connections) > 0 THEN "insertConnections"
    ELSE "updateCanvas"

\* A call that goes from the elements straight to the timestamp.
AfterElementsSkipsConnections(r) == "updateCanvas"

AfterElements(r) ==
    IF Len(r.connections) > 0 THEN "insertConnections" ELSE "updateCanvas"

\* A call starts: its maps are empty.
Begin(p, r) ==
    /\ req' = [req EXCEPT ![p] = r]
    /\ pc' = [pc EXCEPT ![p] = "deleteElements"]
    /\ clientIdToDbId' = [clientIdToDbId EXCEPT ![p] = {}]
    /\ additionalIdMap' = [additionalIdMap EXCEPT ![p] = {}]
    /\ cursor' = [cursor EXCEPT ![p] = 0]
    /\ result' = [result EXCEPT ![p] = "pending"]
    /\ callCount' = [callCount EXCEPT ![p] = @ + 1]
    /\ UNCHANGED <<elements, connections, nextElementId, nextConnectionId,
                   updatedAt, clock, completed, snaps>>

\* The client saves the canvas through the route.
PutState(p, r) ==
    /\ pc[p] \in {"idle", "done"}
    /\ callCount[p] < MaxCalls
    /\ Begin(p, Enhanced(r))
    /\ response' = [response EXCEPT ![p] = "pending"]
    /\ UNCHANGED <<wsVars, accessVars>>

\* storage.replaceCanvasState called with the state as it is.
ReplaceCanvasState(p, r) ==
    /\ pc[p] \in {"idle", "done"}
    /\ callCount[p] < MaxCalls
    /\ Begin(p, r)
    /\ response' = [response EXCEPT ![p] = "none"]
    /\ UNCHANGED <<wsVars, accessVars>>

\* What a saver submits: anything the first time, then the same state again
\* or an empty canvas.
Submittable(p) ==
    IF callCount[p] = 0 THEN Requests
    ELSE {Request(req[p].canvasId, req[p].N, req[p].E), NoRequest}

\* A delete without its WHERE clause.
DeletedEverywhere(rows, c) == {}

\* A delete that removes nothing.
DeletedNothing(rows, c) == rows

\* DELETE FROM ... WHERE canvas_id = c
Deleted(rows, c) == {row \in rows : row.canvasId # c}

\* DELETE FROM canvas_elements
DeleteElements(p) ==
    /\ pc[p] = "deleteElements"
    /\ elements' = Deleted(elements, req[p].canvasId)
    /\ pc' = [pc EXCEPT ![p] = "deleteConnections"]
    /\ UNCHANGED <<connections, nextElementId, nextConnectionId, updatedAt, clock,
                   req, clientIdToDbId, additionalIdMap, cursor, result, callCount,
                   completed, snaps>>
    /\ UNCHANGED response
    /\ UNCHANGED <<wsVars, accessVars>>

\* DELETE FROM connections
DeleteConnections(p) ==
    /\ pc[p] = "deleteConnections"
    /\ connections' = Deleted(connections, req[p].canvasId)
    /\ pc' = [pc EXCEPT ![p] = AfterDeletes(req[p])]
    /\ UNCHANGED <<elements, nextElementId, nextConnectionId, updatedAt, clock,
                   req, clientIdToDbId, additionalIdMap, cursor, result, callCount,
                   completed, snaps>>
    /\ UNCHANGED response
    /\ UNCHANGED <<wsVars, accessVars>>

\* A loop that also skips an element without a content payload.
SkippedWithoutContent(el) == ~el.hasType \/ ~el.hasContent

\* if (!el.type) continue
SkippedElement(el) == ~el.hasType

\* One round of the element loop: an element without a type is skipped, any
\* other is harvested, stamped, inserted and mapped.
InsertElement(p) ==
    /\ pc[p] = "insertElements"
    /\ LET i == cursor[p] + 1
           el == req[p].elements[i]
           last == i = Len(req[p].elements)
       IN /\ cursor' = [cursor EXCEPT ![p] = IF last THEN 0 ELSE i]
          /\ pc' = [pc EXCEPT ![p] = IF last THEN AfterElements(req[p]) ELSE @]
          /\ IF ~SkippedElement(el)
             THEN /\ additionalIdMap' =
                        [additionalIdMap EXCEPT ![p] = PutAll(@, Harvest(el), el.id)]
                  /\ elements' = elements \cup
                        {ElementRow(nextElementId, req[p].canvasId, el, <<p, callCount[p]>>)}
                  /\ clientIdToDbId' =
                        [clientIdToDbId EXCEPT ![p] = Put(@, el.id, nextElementId)]
                  /\ nextElementId' = nextElementId + 1
             ELSE UNCHANGED <<additionalIdMap, elements, clientIdToDbId, nextElementId>>
    /\ UNCHANGED <<connections, nextConnectionId, updatedAt, clock, req, result,
                   callCount, completed, snaps>>
    /\ UNCHANGED response
    /\ UNCHANGED <<wsVars, accessVars>>

\* A connection loop in which a connection the filter rejects throws: the
\* catch block returns false.
InsertConnectionThrowsOnDrop(p) ==
    /\ pc[p] = "insertConnections"
    /\ LET i == cursor[p] + 1
           conn == Preprocess(clientIdToDbId[p], additionalIdMap[p], req[p].connections[i])
           last == i = Len(req[p].connections)
       IN IF IsValid(clientIdToDbId[p], conn)
          THEN /\ cursor' = [cursor EXCEPT ![p] = IF last THEN 0 ELSE i]
               /\ pc' = [pc EXCEPT ![p] = IF last THEN "updateCanvas" ELSE @]
               /\ connections' = connections \cup
                     {ConnectionRow(nextConnectionId, req[p].canvasId,
                                    clientIdToDbId[p], conn, i, <<p, callCount[p]>>)}
               /\ nextConnectionId' = nextConnectionId + 1
               /\ UNCHANGED result
          ELSE /\ result' = [result EXCEPT ![p] = "false"]
               /\ pc' = [pc EXCEPT ![p] = IF response[p] = "pending" THEN "fallback"
                                           ELSE "done"]
               /\ UNCHANGED <<cursor, connections, nextConnectionId>>
    /\ UNCHANGED <<elements, nextElementId, updatedAt, clock, req, clientIdToDbId,
                   additionalIdMap, callCount, completed, snaps>>
    /\ UNCHANGED response
    /\ UNCHANGED <<wsVars, accessVars>>

\* One round of the connection loop: the connection is preprocessed, and
\* inserted when the filter keeps it.
InsertConnection(p) ==
    /\ pc[p] = "insertConnections"
    /\ LET i == cursor[p] + 1
           conn == Preprocess(clientIdToDbId[p], additionalIdMap[p], req[p].connections[i])
           last == i = Len(req[p].connections)
       IN /\ cursor' = [cursor EXCEPT ![p] = IF last THEN 0 ELSE i]
          /\ pc' = [pc EXCEPT ![p] = IF last THEN "updateCanvas" ELSE @]
          /\ IF IsValid(clientIdToDbId[p], conn)
             THEN /\ connections' = connections \cup
                        {ConnectionRow(nextConnectionId, req[p].canvasId,
                                       clientIdToDbId[p], conn, i, <<p, callCount[p]>>)}
                  /\ nextConnectionId' = nextConnectionId + 1
             ELSE UNCHANGED <<connections, nextConnectionId>>
    /\ UNCHANGED <<elements, nextElementId, updatedAt, clock, req, clientIdToDbId,
                   additionalIdMap, result, callCount, completed, snaps>>
    /\ UNCHANGED response
    /\ UNCHANGED <<wsVars, accessVars>>

\* ---- GET /api/canvases/:id/state ------------------------------------------
ElementsOf(c) == {row \in elements : row.canvasId = c}
ConnectionsOf(c) == {row \in connections : row.canvasId = c}

\* elementIdMap: the client id read back from the style, else from the
\* content, else the database id as a string.
ElementClientId(row) ==
    IF row.style.clientId # None THEN row.style.clientId
    ELSE IF row.content._clientId # None THEN row.content._clientId
    ELSE ToString(row.id)

\* The element row a connection's reference joins to, if any.
Joined(c, dbId) == {row \in ElementsOf(c) : row.id = dbId}

\* The client id in the content, then in the style, of a joined element.
JoinedClientId(rows) ==
    IF rows = {} THEN None
    ELSE LET row == CHOOSE r \in rows : TRUE
         IN IF row.content.clientId # None THEN row.content.clientId
            ELSE IF row.content._clientId # None THEN row.content._clientId
            ELSE row.style.clientId

\* source / target of a returned connection: the style's client id key, then
\* its id key, then the joined element, then the reference column.
LoadedEndpoint(c, clientIdKey, idKey, dbId) ==
    IF clientIdKey # None THEN clientIdKey
    ELSE IF idKey # None THEN idKey
    ELSE IF JoinedClientId(Joined(c, dbId)) # None THEN JoinedClientId(Joined(c, dbId))
    ELSE IF Joined(c, dbId) # {}
         THEN ElementClientId(CHOOSE r \in Joined(c, dbId) : TRUE)
         ELSE ToString(dbId)

LoadedElement(row) ==
    [id |-> ToString(row.id), content |-> row.content, style |-> row.style]

LoadedConnection(c, row) ==
    [id |-> ToString(row.id),
     source |-> LoadedEndpoint(c, row.style.sourceClientId, row.style.sourceId, row.sourceId),
     target |-> LoadedEndpoint(c, row.style.targetClientId, row.style.targetId, row.targetId),
     idx |-> row.idx, by |-> row.by]

\* The response of the load.
LoadState(c) ==
    [elements |-> {LoadedElement(row) : row \in ElementsOf(c)},
     connections |-> {LoadedConnection(c, row) : row \in ConnectionsOf(c)}]

\* ---- the stored state up to durable ids -----------------------------------
\* The client id of the element a reference column points at.
Referenced(c, dbId) ==
    IF Joined(c, dbId) = {} THEN "dangling"
    ELSE ElementClientId(CHOOSE r \in Joined(c, dbId) : TRUE)

RECURSIVE BagOfRows(_, _)
BagOfRows(rows, c) ==
    IF rows = {} THEN EmptyBag
    ELSE LET row == CHOOSE r \in rows : TRUE
             image == IF "sourceId" \in DOMAIN row
                      THEN [source |-> Referenced(c, row.sourceId),
                            target |-> Referenced(c, row.targetId),
                            sourceClientId |-> row.style.sourceClientId,
                            targetClientId |-> row.style.targetClientId,
                            sourceRef |-> Referenced(c, row.style.sourceDbId),
                            targetRef |-> Referenced(c, row.style.targetDbId),
                            styleSourceId |-> row.style.sourceId,
                            styleTargetId |-> row.style.targetId]
                      ELSE [content |-> row.content, style |-> row.style]
         IN SetToBag({image}) (+) BagOfRows(rows \ {row}, c)

\* Nodes and edges of a canvas with durable ids renamed away.
Snapshot(els, conns, c) ==
    [nodes |-> BagOfRows({row \in els : row.canvasId = c}, c),
     edges |-> BagOfRows({row \in conns : row.canvasId = c}, c)]

\* A route that answers success whatever the save returned.
SaveOutcomeMasksFailure(success, fallbackOk) == "200"

\* The status the route answers with: 200 when the save returned true, else
\* 207 when the timestamp-only update went through, else 500.
SaveOutcome(success, fallbackOk) ==
    IF success THEN "200" ELSE IF fallbackOk THEN "207" ELSE "500"

\* Whether the call of p came through the route.
ViaRoute(p) == response[p] = "pending"

\* UPDATE canvases SET updated_at; the call returns true, and the route, if
\* it made the call, answers.
UpdateCanvas(p) ==
    /\ pc[p] = "updateCanvas"
    /\ clock' = clock + 1
    /\ updatedAt' = [updatedAt EXCEPT ![req[p].canvasId] = clock + 1]
    /\ result' = [result EXCEPT ![p] = "true"]
    /\ pc' = [pc EXCEPT ![p] = "done"]
    /\ completed' = Append(completed, p)
    /\ snaps' = Append(snaps, [req |-> req[p], call |-> callCount[p],
                               state |-> Snapshot(elements, connections, req[p].canvasId)])
    /\ response' = [response EXCEPT ![p] = IF ViaRoute(p) THEN SaveOutcome(TRUE, FALSE)
                                           ELSE @]
    /\ UNCHANGED <<elements, connections, nextElementId, nextConnectionId, req,
                   clientIdToDbId, additionalIdMap, cursor, callCount>>
    /\ UNCHANGED <<wsVars, accessVars>>

\* A statement throws: the catch block returns false. The route then tries
\* the timestamp-only update.
Fail(p) ==
    /\ pc[p] \in Steps
    /\ result' = [result EXCEPT ![p] = "false"]
    /\ pc' = [pc EXCEPT ![p] = IF ViaRoute(p) THEN "fallback" ELSE "done"]
    /\ UNCHANGED <<elements, connections, nextElementId, nextConnectionId, updatedAt,
                   clock, req, clientIdToDbId, additionalIdMap, cursor, callCount,
                   completed, snaps, response>>
    /\ UNCHANGED <<wsVars, accessVars>>

\* storage.updateCanvas(id, {updatedAt}) after a failed save: it goes
\* through and the route answers, or it throws and the route answers.
FallbackUpdate(p, ok) ==
    /\ pc[p] = "fallback"
    /\ pc' = [pc EXCEPT ![p] = "done"]
    /\ clock' = IF ok THEN clock + 1 ELSE clock
    /\ updatedAt' = IF ok THEN [updatedAt EXCEPT ![req[p].canvasId] = clock + 1]
                    ELSE updatedAt
    /\ response' = [response EXCEPT ![p] = SaveOutcome(FALSE, ok)]
    /\ UNCHANGED <<elements, connections, nextElementId, nextConnectionId, req,
                   clientIdToDbId, additionalIdMap, cursor, result, callCount,
                   completed, snaps>>
    /\ UNCHANGED <<wsVars, accessVars>>

StoreInit ==
    /\ elements = {}
    /\ connections = {}
    /\ nextElementId = 1
    /\ nextConnectionId = 1
    /\ updatedAt = [c \in CanvasIds |-> 0]
    /\ clock = 0
    /\ pc = [p \in Procs |-> "idle"]
    /\ req = [p \in Procs |-> NoRequest]
    /\ clientIdToDbId = [p \in Procs |-> {}]
    /\ additionalIdMap = [p \in Procs |-> {}]
    /\ cursor = [p \in Procs |-> 0]
    /\ result = [p \in Procs |-> "pending"]
    /\ callCount = [p \in Procs |-> 0]
    /\ completed = <<>>
    /\ snaps = <<>>
    /\ response = [p \in Procs |-> "none"]

\* The statements of a call in flight.
Step(p) ==
    \/ DeleteElements(p)
    \/ DeleteConnections(p)
    \/ InsertElement(p)
    \/ InsertConnection(p)
    \/ UpdateCanvas(p)
    \/ Fail(p)
    \/ \E ok \in BOOLEAN : FallbackUpdate(p, ok)

\* One saver, one call after the other.
SeqNext ==
    \/ \E r \in Submittable(Saver) : PutState(Saver, r)
    \/ \E r \in Submittable(Saver) : ReplaceCanvasState(Saver, r)
    \/ Step(Saver)

\* Two savers of one canvas, one call each, their statements interleaved.
ConcNext ==
    \/ \E p \in Procs : \E r \in PlainRequests :
          callCount[p] = 0 /\ PutState(p, r)
    \/ \E p \in Procs : Step(p)

\* ---- one call with a richer edge, or with elements that lack a payload ----
MaxResolveKeys == 2

\* Database ids a submitted edge style may carry from an earlier load.
SubmittedDbIds == 1..MaxNodes

\* Typed nodes that embed the alternate id, or the id of another node, under
\* one of the harvested keys.
ResolveNodesOf(i) ==
    LET alts == {None, Alt} \cup (Ids \ {NodeId(i)})
    IN  {NodeInput(NodeId(i), TRUE, c1, c2, s1) : c1 \in alts, c2 \in alts, s1 \in alts}

ResolveNodeListsOf(k) ==
    {ns \in [1..k -> UNION {ResolveNodesOf(i) : i \in 1..k}] :
        /\ \A i \in 1..k : ns[i].id = NodeId(i)
        /\ SumAliases(ns, 1) <= MaxAliases}

ResolveStyles ==
    {st \in {StampedEdgeStyle(sci, si, tci, ti, sdb, tdb) :
                sci \in {None} \cup Refs, si \in {None} \cup Refs,
                tci \in {None} \cup Refs, ti \in {None} \cup Refs,
                sdb \in {0} \cup SubmittedDbIds, tdb \in {0} \cup SubmittedDbIds} :
        KeysIn(st) <= MaxResolveKeys}

ResolveEdges == {EdgeInput(s, t, st) : s \in Refs, t \in Refs, st \in ResolveStyles}

\* Nodes with or without a kind and with or without a content payload.
FlagNodesOf(i) ==
    {NodeInput(NodeId(i), t, None, None, None) : t \in BOOLEAN}
        \cup {NodeWithoutContent(NodeId(i), t, None) : t \in BOOLEAN}

FlagNodeListsOf(k) ==
    {ns \in [1..k -> UNION {FlagNodesOf(i) : i \in 1..k}] :
        \A i \in 1..k : ns[i].id = NodeId(i)}

PlainEdgeListsOf(k) ==
    {<<>>} \cup {<<EdgeInput(NodeId(i), NodeId(j), NoStyle)>> : i \in 1..k, j \in 1..k}

ResolveNodeLists == UNION {ResolveNodeListsOf(k) : k \in 1..MaxNodes}

FlagRequestsOf(k) ==
    {Request(1, ns, es) : ns \in FlagNodeListsOf(k), es \in PlainEdgeListsOf(k)}

ResolveRequests ==
    {Request(1, ns, <<e>>) : ns \in ResolveNodeLists, e \in ResolveEdges}
        \cup UNION {FlagRequestsOf(k) : k \in 1..MaxNodes}

\* The statements of a call none of which throws.
Run(p) ==
    \/ DeleteElements(p)
    \/ DeleteConnections(p)
    \/ InsertElement(p)
    \/ InsertConnection(p)
    \/ UpdateCanvas(p)

\* One call of one saver, through the route or straight to the storage.
ResolveNext ==
    \/ callCount[Saver] = 0 /\ \E r \in ResolveRequests : PutState(Saver, r)
    \/ callCount[Saver] = 0 /\ \E r \in ResolveRequests : ReplaceCanvasState(Saver, r)
    \/ Run(Saver)

\* ---- one call with two edges, some of which name no node ------------------
MaxDropEdges == 2

\* Nodes with or without a kind, without alternate ids.
DropNodeListsOf(k) ==
    {ns \in [1..k -> {NodeInput(NodeId(i), t, None, None, None) :
                         i \in 1..k, t \in BOOLEAN}] :
        \A i \in 1..k : ns[i].id = NodeId(i)}

\* Edges whose ends are a node's id, an id that names nothing, or missing,
\* and whose style may name the first node as the source.
DropEdges ==
    {EdgeInput(s, t, EdgeStyle(sci, None, None, None)) :
        s \in Ids \cup {Ghost, None}, t \in Ids \cup {Ghost, None},
        sci \in {None, NodeId(1)}}

DropNodeLists == UNION {DropNodeListsOf(k) : k \in 1..MaxNodes}

DropRequests ==
    {Request(1, ns, es) : ns \in DropNodeLists, es \in [1..MaxDropEdges -> DropEdges]}

\* One call of one saver, none of whose statements throws.
DropNext ==
    \/ callCount[Saver] = 0 /\ \E r \in DropRequests : PutState(Saver, r)
    \/ callCount[Saver] = 0 /\ \E r \in DropRequests : ReplaceCanvasState(Saver, r)
    \/ Run(Saver)

\* ---- calls on one canvas after calls on another ----------------------------
\* Plain requests for either canvas.
FrameRequests == {[r EXCEPT !.canvasId = c] : r \in PlainRequests, c \in CanvasIds}

\* One saver, one call after the other, on any canvas; statements may throw.
FrameNext ==
    \/ \E r \in FrameRequests : PutState(Saver, r)
    \/ \E r \in FrameRequests : ReplaceCanvasState(Saver, r)
    \/ Step(Saver)

\* ---- single-row storage operations ------------------------------------------
MaxRows == 2

\* A row of createCanvasElement: the payloads are the caller's.
CreatedElement(dbId, c) ==
    [id |-> dbId, canvasId |-> c,
     content |-> [clientId |-> None, _clientId |-> None],
     style |-> [clientId |-> None],
     by |-> <<0, 0>>]

\* connection.sourceId / targetId as inserted: the given column (0 when
\* absent), else the number parsed from style.source / style.target.
ReferenceOf(column, fromStyle) == IF column = 0 /\ fromStyle # 0 THEN fromStyle ELSE column

\* A row of createConnection.
CreatedConnection(dbId, c, sourceId, targetId) ==
    [id |-> dbId, canvasId |-> c, sourceId |-> sourceId, targetId |-> targetId,
     style |-> NoStyle, idx |-> 0, by |-> <<0, 0>>]

\* storage.createCanvasElement(element)
CreateCanvasElement(c) ==
    /\ nextElementId <= MaxRows
    /\ elements' = elements \cup {CreatedElement(nextElementId, c)}
    /\ nextElementId' = nextElementId + 1
    /\ UNCHANGED <<connections, nextConnectionId, updatedAt, clock, pc, req,
                   clientIdToDbId, additionalIdMap, cursor, result, callCount,
                   completed, snaps, response>>
    /\ UNCHANGED <<wsVars, accessVars>>

\* storage.deleteCanvasElement(id): the row goes, rows of connections stay.
DeleteCanvasElement(id) ==
    /\ \E row \in elements : row.id = id
    /\ elements' = {row \in elements : row.id # id}
    /\ UNCHANGED <<connections, nextElementId, nextConnectionId, updatedAt, clock, pc,
                   req, clientIdToDbId, additionalIdMap, cursor, result, callCount,
                   completed, snaps, response>>
    /\ UNCHANGED <<wsVars, accessVars>>

\* storage.createConnection(connection)
CreateConnection(c, sourceId, targetId, styleSource, styleTarget) ==
    /\ nextConnectionId <= MaxRows
    /\ connections' = connections \cup
          {CreatedConnection(nextConnectionId, c, ReferenceOf(sourceId, styleSource),
                             ReferenceOf(targetId, styleTarget))}
    /\ nextConnectionId' = nextConnectionId + 1
    /\ UNCHANGED <<elements, nextElementId, updatedAt, clock, pc, req, clientIdToDbId,
                   additionalIdMap, cursor, result, callCount, completed, snaps,
                   response>>
    /\ UNCHANGED <<wsVars, accessVars>>

\* storage.deleteConnection(id)
DeleteConnection(id) ==
    /\ \E row \in connections : row.id = id
    /\ connections' = {row \in connections : row.id # id}
    /\ UNCHANGED <<elements, nextElementId, nextConnectionId, updatedAt, clock, pc,
                   req, clientIdToDbId, additionalIdMap, cursor, result, callCount,
                   completed, snaps, response>>
    /\ UNCHANGED <<wsVars, accessVars>>

\* The storage operations on elements and connections, with one replace.
StoreNext ==
    \/ \E c \in CanvasIds : CreateCanvasElement(c)
    \/ \E id \in 1..MaxRows : DeleteCanvasElement(id)
    \/ \E c \in CanvasIds, sourceId \in 0..MaxRows, targetId \in 0..MaxRows,
          styleSource \in 0..1, styleTarget \in 0..1 :
          CreateConnection(c, sourceId, targetId, styleSource, styleTarget)
    \/ \E id \in 1..MaxRows : DeleteConnection(id)
    \/ callCount[Saver] = 0 /\ nextElementId <= MaxRows
          /\ \E r \in PlainRequests : ReplaceCanvasState(Saver, r)
    \/ Run(Saver)

\* ---- canvases, collaborators and the permission checks ---------------------
Visibilities == {"private", "collaborative", "public"}

\* getCanvas(id) found no row.
NoCanvas == [userId |-> 0, visibility |-> "none", isPublic |-> FALSE]

Canvas(owner, visibility, isPublic) ==
    [userId |-> owner, visibility |-> visibility, isPublic |-> isPublic]

\* storage.isCollaborator(canvasId, userId): false when the query throws.
isCollaborator(rows, c, u, throws) == ~throws /\ <<c, u>> \in rows

\* An access check without the owner branch.
userHasAccessUnlessPrivate(canvas, isCollab, u, throws) ==
    IF throws \/ canvas = NoCanvas THEN FALSE
    ELSE IF canvas.visibility = "public" \/ canvas.isPublic THEN TRUE
    ELSE isCollab

\* storage.userHasAccessToCanvas(userId, canvasId), given the row getCanvas
\* returns and the answer of isCollaborator; false when getCanvas throws.
userHasAccessToCanvas(canvas, isCollab, u, throws) ==
    IF throws \/ canvas = NoCanvas THEN FALSE
    ELSE IF canvas.userId = u THEN TRUE
    ELSE IF canvas.visibility = "public" \/ canvas.isPublic THEN TRUE
    ELSE isCollab

\* PUT /api/canvases/:id/state permission check: owner, admin or collaborator.
MaySave(canvas, isCollab, u, isAdmin) ==
    canvas # NoCanvas /\ (canvas.userId = u \/ isAdmin \/ isCollab)

Decision(op, u, c, canvas, isCollab, isAdmin, granted) ==
    [op |-> op, userId |-> u, canvasId |-> c, canvas |-> canvas,
     isCollaborator |-> isCollab, isAdmin |-> isAdmin, granted |-> granted]

\* storage.createCanvas(canvas)
CreateCanvas(c, owner, visibility, isPublic) ==
    /\ canvasRows[c] = NoCanvas
    /\ canvasRows' = [canvasRows EXCEPT ![c] = Canvas(owner, visibility, isPublic)]
    /\ UNCHANGED <<collaboratorRows, check>>
    /\ UNCHANGED <<wsVars, storeVars>>

\* storage.updateCanvasVisibility(id, visibility): is_public follows.
UpdateCanvasVisibility(c, visibility) ==
    /\ canvasRows[c] # NoCanvas
    /\ canvasRows' = [canvasRows EXCEPT ![c] = [@ EXCEPT !.visibility = visibility,
                                                         !.isPublic = visibility = "public"]]
    /\ UNCHANGED <<collaboratorRows, check>>
    /\ UNCHANGED <<wsVars, storeVars>>

\* storage.updateCanvas(id, data): .set(data) writes the columns data names
\* and no other; None is a data without visibility, the empty set a data
\* without isPublic.
UpdateCanvasData(c, visibility, isPublic) ==
    /\ canvasRows[c] # NoCanvas
    /\ canvasRows' =
          [canvasRows EXCEPT ![c] =
              [@ EXCEPT !.visibility = IF visibility = None THEN @ ELSE visibility,
                        !.isPublic = IF isPublic = {} THEN @
                                     ELSE CHOOSE b \in isPublic : TRUE]]
    /\ UNCHANGED <<collaboratorRows, check>>
    /\ UNCHANGED <<wsVars, storeVars>>

\* storage.addCollaborator / removeCollaborator
AddCollaborator(c, u) ==
    /\ canvasRows[c] # NoCanvas
    /\ <<c, u>> \notin collaboratorRows
    /\ collaboratorRows' = collaboratorRows \cup {<<c, u>>}
    /\ UNCHANGED <<canvasRows, check>>
    /\ UNCHANGED <<wsVars, storeVars>>

RemoveCollaborator(c, u) ==
    /\ <<c, u>> \in collaboratorRows
    /\ collaboratorRows' = collaboratorRows \ {<<c, u>>}
    /\ UNCHANGED <<canvasRows, check>>
    /\ UNCHANGED <<wsVars, storeVars>>

\* A call of userHasAccessToCanvas; either query may throw.
CheckAccess(u, c, canvasThrows, collabThrows) ==
    /\ LET isCollab == isCollaborator(collaboratorRows, c, u, collabThrows)
           canvas == IF canvasThrows THEN NoCanvas ELSE canvasRows[c]
       IN check' = Decision("access", u, c, canvas, isCollab, FALSE,
                         userHasAccessToCanvas(canvasRows[c], isCollab, u, canvasThrows))
    /\ UNCHANGED <<canvasRows, collaboratorRows>>
    /\ UNCHANGED <<wsVars, storeVars>>

\* The permission check of a save request of an authenticated user.
CheckSave(u, c, isAdmin, collabThrows) ==
    /\ LET isCollab == isCollaborator(collaboratorRows, c, u, collabThrows)
       IN check' = Decision("save", u, c, canvasRows[c], isCollab, isAdmin,
                         MaySave(canvasRows[c], isCollab, u, isAdmin))
    /\ UNCHANGED <<canvasRows, collaboratorRows>>
    /\ UNCHANGED <<wsVars, storeVars>>

AccessInit ==
    /\ canvasRows = [c \in CanvasIds |-> NoCanvas]
    /\ collaboratorRows = {}
    /\ check = Decision("none", 0, 0, NoCanvas, FALSE, FALSE, FALSE)

AccessNext ==
    \/ \E c \in CanvasIds, owner \in UserIds, visibility \in Visibilities,
          isPublic \in BOOLEAN : CreateCanvas(c, owner, visibility, isPublic)
    \/ \E c \in CanvasIds, visibility \in Visibilities : UpdateCanvasVisibility(c, visibility)
    \/ \E c \in CanvasIds, visibility \in Visibilities \cup {None},
          isPublic \in {{}, {TRUE}, {FALSE}} : UpdateCanvasData(c, visibility, isPublic)
    \/ \E c \in CanvasIds, u \in UserIds : AddCollaborator(c, u)
    \/ \E c \in CanvasIds, u \in UserIds : RemoveCollaborator(c, u)
    \/ \E c \in CanvasIds, u \in UserIds, canvasThrows \in BOOLEAN, collabThrows \in BOOLEAN :
          CheckAccess(u, c, canvasThrows, collabThrows)
    \/ \E c \in CanvasIds, u \in UserIds, isAdmin \in BOOLEAN, collabThrows \in BOOLEAN :
          CheckSave(u, c, isAdmin, collabThrows)

\* Registry, session handler and fanout: every handler but the monitor's.
\* A tick acts on this part of the state only by making open sockets
\* closing, which PeerClose does one socket at a time.
WsNext ==
    \/ \E ch \in Chans : OnConnection(ch)
    \/ \E ch \in Chans, type \in MsgTypes, c \in CanvasIds, u \in UserIds,
          p \in Payloads : OnMessage(ch, type, c, u, p)
    \/ \E ch \in Chans, type \in {"", "join-canvas"}, c \in {0, 1},
          u \in {0, 1} : OnInvalidMessage(ch, type, c, u)
    \/ \E ch \in Chans : OnClose(ch)
    \/ \E ch \in Chans : PeerClose(ch)
    \/ \E ch \in Chans : Break(ch)
    \/ Drain

\* The liveness monitor with the session handler: clients join, answer
\* probes or fall silent, and the monitor ticks.
LiveNext ==
    \/ \E ch \in Chans : OnConnection(ch)
    \/ \E ch \in Chans, c \in CanvasIds, u \in UserIds :
          OnMessage(ch, "join-canvas", c, u, 1)
    \/ \E ch \in Chans : OnClose(ch)
    \/ \E ch \in Chans : OnPong(ch)
    \/ Tick
    \/ Drain

Init == WsInit /\ StoreInit /\ AccessInit

Next == WsNext

Spec == Init /\ [][Next]_vars

SpecLive == Init /\ [][LiveNext]_vars

\* Every handler of the real-time fabric together.
AllNext ==
    \/ WsNext
    \/ \E ch \in Chans : OnPong(ch)
    \/ Tick

SpecAll == Init /\ [][AllNext]_vars

\* The store under one saver, and under two.
SpecSeq == Init /\ [][SeqNext]_vars

SpecConc == Init /\ [][ConcNext]_vars

\* The single-row operations and one replace.
SpecStore == Init /\ [][StoreNext]_vars

\* Canvases, collaborators and the permission checks.
SpecAccess == Init /\ [][AccessNext]_vars

\* One call with the richer inputs.
SpecResolve == Init /\ [][ResolveNext]_vars

\* One call with two edges.
SpecDrop == Init /\ [][DropNext]_vars

\* Calls on either canvas.
SpecFrame == Init /\ [][FrameNext]_vars

\* The monitor with clients that join, answer probes, fall silent or close.
\* The interval timer keeps firing and a handler ends; a close event that is
\* due is handled between other handlers, however often they run. No client
\* is obliged to send.
StaleNext ==
    \/ LiveNext
    \/ \E ch \in Chans : PeerClose(ch)

SpecStale ==
    /\ Init
    /\ [][StaleNext]_vars
    /\ WF_vars(Tick)
    /\ WF_vars(Drain)
    /\ \A ch \in Chans : SF_vars(OnClose(ch))

\* ------------------------------------------------------------------------
\* Properties of the real-time fabric
\* ------------------------------------------------------------------------
\* The last handler handled a valid message of socket ch for (c, u).
Handled(op, ch, c, u) ==
    /\ op.op = "message"
    /\ op.ws = ch
    /\ op.canvasId = c
    /\ op.userId = u

UserLeft(to, c, u) == Msg(to, "user-left", c, u, {}, 0)

C2_ReplaceOnDuplicate_Original ==
    [][\A A, B \in Chans, c \in CanvasIds, u \in UserIds :
          (/\ Quiet
           /\ A # B
           /\ Entry(c, u, A) \in canvasConnections
           /\ Handled(lastOp', B, c, u))
          => (/\ CloseCall(A, NormalClosure) \in closeCalls'
              /\ MapGet(canvasConnections', c, u) = {Entry(c, u, B)})]_vars

\* C2 (amended): the same for every message kind but leave-canvas; after a
\* leave-canvas A is closed with code 1000 as well and (c, u) has no entry.
C2_ReplaceOnDuplicate ==
    [][\A A, B \in Chans, c \in CanvasIds, u \in UserIds :
          (/\ Quiet
           /\ A # B
           /\ Entry(c, u, A) \in canvasConnections
           /\ Handled(lastOp', B, c, u))
          => (/\ CloseCall(A, NormalClosure) \in closeCalls'
              /\ Entry(c, u, A) \notin canvasConnections'
              /\ MapGet(canvasConnections', c, u) =
                   IF lastOp'.type = "leave-canvas" THEN {} ELSE {Entry(c, u, B)})]_vars

\* C2 witness: a replacement by a message that is not a leave has happened.
C2_Witness ==
    /\ lastOp.op = "message"
    /\ lastOp.type # "leave-canvas"
    /\ \E cc \in closeCalls : cc.code = NormalClosure /\ cc.ws # lastOp.ws
    /\ MapGet(canvasConnections, lastOp.canvasId, lastOp.userId)
         = {Entry(lastOp.canvasId, lastOp.userId, lastOp.ws)}

\* The channels registered for user u among the entries conns.
ChannelsOf(conns, u) == {e.ws : e \in {x \in conns : x.userId = u}}

\* C3: broadcast(canvasId, m, excludeUserId = u) never delivers m to the
\* channel registered for u and delivers m exactly once to every other
\* channel registered on the canvas and open (and whose send succeeds).
C3_BroadcastExactlyOnce ==
    \A b \in calls :
        /\ \A ch \in ChannelsOf(b.conns, b.exclude) :
              CopiesIn(Msg(ch, b.type, b.canvasId, b.userId, {}, b.payload), outbox) = 0
        /\ \A e \in b.conns :
              (/\ e.ws \notin ChannelsOf(b.conns, b.exclude)
               /\ b.rs[e.ws] = "open"
               /\ e.ws \notin broken)
              => CopiesIn(Msg(e.ws, b.type, b.canvasId, b.userId, {}, b.payload),
                          outbox) = 1

\* C7: after the close event of a channel has been handled no registry
\* entry of any canvas, under any userId, maps to that channel.
C7_CloseCleanup ==
    \A e \in canvasConnections : readyState[e.ws] # "closed"

\* C8: when a channel registered for (canvasId, userId) closes, the close
\* handler delivers a user-left naming that userId to every other open
\* channel registered on that canvas (whose send succeeds).
C8_CloseNotification ==
    [][\A e \in canvasConnections :
          (/\ Quiet
           /\ lastOp'.op = "close"
           /\ lastOp'.ws = e.ws)
          => \A r \in getCanvasConnections(canvasConnections, e.canvasId) :
                (r.ws # e.ws /\ readyState[r.ws] = "open" /\ r.ws \notin broken)
                => CopiesIn(UserLeft(r.ws, e.canvasId, e.userId), outbox') >= 1]_vars

\* C9: a registered channel the monitor terminated after it stayed silent
\* across two ticks has its registration removed, and the other open
\* channels of that canvas receive a user-left for its userId, when the
\* close that the second tick caused is handled.
C9_LivenessEviction ==
    [][\A e \in canvasConnections :
          (/\ Quiet
           /\ e.ws \in terminated
           /\ lastOp'.op = "close"
           /\ lastOp'.ws = e.ws)
          => /\ e \notin canvasConnections'
             /\ \A r \in getCanvasConnections(canvasConnections, e.canvasId) :
                   (r.ws # e.ws /\ readyState[r.ws] = "open" /\ r.ws \notin broken)
                   => CopiesIn(UserLeft(r.ws, e.canvasId, e.userId), outbox') >= 1]_vars

\* ------------------------------------------------------------------------
\* Properties of the store
\* ------------------------------------------------------------------------
\* The call of p has returned.
Returned(p) == pc[p] = "done"
Succeeded(p) == Returned(p) /\ result[p] = "true"

IdsOf(ns) == {ns[i].id : i \in DOMAIN ns}

\* Every node has a kind and every edge joins two nodes of the node set.
EndpointsInN(r) ==
    /\ \A i \in DOMAIN r.N : r.N[i].hasType
    /\ \A i \in DOMAIN r.E : r.E[i].source \in IdsOf(r.N) /\ r.E[i].target \in IdsOf(r.N)

\* C4 (round trip): after a successful replace of nodes N and edges E whose
\* endpoints are ids of nodes of N, the load returns one node per node of N,
\* carrying that node's ephemeral id, and one edge per edge of E whose source
\* and target are the ephemeral ids the edge had.
C4_RoundTrip ==
    \A p \in Procs :
        (Succeeded(p) /\ EndpointsInN(req[p])) =>
            LET r == req[p]
                st == LoadState(r.canvasId)
            IN /\ Cardinality(st.elements) = Len(r.N)
               /\ \A i \in DOMAIN r.N :
                      Cardinality({el \in st.elements : el.style.clientId = r.N[i].id}) = 1
               /\ Cardinality(st.connections) = Len(r.E)
               /\ \A i \in DOMAIN r.E :
                      \E e \in st.connections :
                          /\ e.idx = i
                          /\ e.source = r.E[i].source
                          /\ e.target = r.E[i].target

\* The ids a node list offers: the nodes' ids and the alternates they embed.
Offered(ns) ==
    IdsOf(ns) \cup UNION {Harvest(ns[i]) : i \in DOMAIN ns}

\* An endpoint names a node when its direct id or an id under one of its
\* style keys is offered by the node list.
NamesNode(ns, direct, clientIdKey, idKey) ==
    {direct, clientIdKey, idKey} \cap Offered(ns) # {}

\* Edge i of the call names a node at both ends.
BothNamed(r, i) ==
    LET e == r.connections[i]
    IN /\ NamesNode(r.elements, e.source, e.style.sourceClientId, e.style.sourceId)
       /\ NamesNode(r.elements, e.target, e.style.targetClientId, e.style.targetId)

\* The edges the current call of p wrote.
WrittenBy(p, rows) == {row \in rows : row.by = <<p, callCount[p]>>}

\* C5 (dangling-edge exclusion): once a replace has returned, an edge of E
\* with an end that names no node of N is neither stored nor returned by the
\* load, and every edge the call stored refers to element rows of the canvas.
C5_DanglingEdgeExclusion ==
    \A p \in Procs :
        Returned(p) =>
            LET r == req[p]
                c == r.canvasId
            IN /\ \A i \in DOMAIN r.connections :
                      ~BothNamed(r, i) =>
                          /\ \A row \in WrittenBy(p, ConnectionsOf(c)) : row.idx # i
                          /\ \A e \in WrittenBy(p, LoadState(c).connections) : e.idx # i
               /\ \A row \in WrittenBy(p, ConnectionsOf(c)) :
                      /\ Joined(c, row.sourceId) # {}
                      /\ Joined(c, row.targetId) # {}

\* A replace of a node with a dangling edge returned true: the node is
\* stored, the edge is not.
C5_Witness ==
    /\ Succeeded(Saver)
    /\ Len(req[Saver].connections) = 1
    /\ req[Saver].connections[1].source = NodeId(1)
    /\ req[Saver].connections[1].target = Ghost
    /\ ~BothNamed(req[Saver], 1)
    /\ ElementsOf(req[Saver].canvasId) # {}
    /\ ConnectionsOf(req[Saver].canvasId) = {}

\* C6 (idempotence): a successful replace that follows a successful replace
\* of the same nodes and edges leaves the same nodes and edges, up to durable
\* ids and the timestamp.
C6_Idempotence ==
    \A i \in 1..(Len(snaps) - 1) :
        (snaps[i].req = snaps[i + 1].req /\ snaps[i + 1].call = snaps[i].call + 1)
            => snaps[i].state = snaps[i + 1].state

\* The same two nodes and their edge were saved twice in a row.
C6_Witness ==
    /\ Len(snaps) = 2
    /\ snaps[1].req = snaps[2].req
    /\ snaps[2].call = snaps[1].call + 1
    /\ Len(snaps[2].req.N) = 2
    /\ snaps[2].state.edges # EmptyBag
    /\ snaps[2].state.nodes # EmptyBag

\* C10 (last completed replace wins): when two interleaved calls on a canvas
\* have both returned true, the canvas holds the rows of the call that
\* returned last and no row of the other.
C10_LastCompletedWins ==
    (\A p \in Procs : Succeeded(p)) =>
        LET last == completed[Len(completed)]
            c == req[last].canvasId
        IN /\ \A row \in ElementsOf(c) \cup ConnectionsOf(c) : row.by[1] = last
           /\ Cardinality(ElementsOf(c)) = Len(req[last].elements)
           /\ Cardinality(ConnectionsOf(c)) = Len(req[last].connections)

\* The submitted elements replace stores: those with a type.
WellFormed(r) == {i \in DOMAIN r.elements : r.elements[i].hasType}

\* The ids a submitted edge resolves to, and whether both name a stored node.
Resolved(p, i) == Preprocess(clientIdToDbId[p], additionalIdMap[p], req[p].connections[i])
Resolves(p, i) ==
    /\ Resolved(p, i).source \in {req[p].elements[k].id : k \in WellFormed(req[p])}
    /\ Resolved(p, i).target \in {req[p].elements[k].id : k \in WellFormed(req[p])}

\* The element row of canvas c that carries the client id.
RowOf(c, id) == {row \in ElementsOf(c) : row.style.clientId = id}

\* C11 (replace semantics): in the step in which a replace returns success,
\* every row of the canvas is one this call wrote (all earlier rows are
\* gone), each well-formed submitted node has exactly one row and there is
\* no other, each resolved edge has exactly one row, joining the rows of the
\* nodes it resolved to, and there is no other, and the step itself inserts
\* nothing and moves the canvas timestamp forward.
C11_ReplaceSemantics ==
    [][\A p \in Procs :
          (pc[p] # "done" /\ pc'[p] = "done" /\ result'[p] = "true") =>
            LET r == req[p]
                c == r.canvasId
            IN /\ \A row \in ElementsOf(c)' \cup ConnectionsOf(c)' :
                      row.by = <<p, callCount[p]>>
               /\ \A k \in WellFormed(r) : Cardinality(RowOf(c, r.elements[k].id)') = 1
               /\ Cardinality(ElementsOf(c)') = Cardinality(WellFormed(r))
               /\ \A i \in DOMAIN r.connections :
                      LET rows == {row \in ConnectionsOf(c)' : row.idx = i}
                      IN IF Resolves(p, i)
                         THEN /\ Cardinality(rows) = 1
                              /\ \A row \in rows :
                                    /\ {x.id : x \in RowOf(c, Resolved(p, i).source)'}
                                          = {row.sourceId}
                                    /\ {x.id : x \in RowOf(c, Resolved(p, i).target)'}
                                          = {row.targetId}
                         ELSE rows = {}
               /\ elements' = elements
               /\ connections' = connections
               /\ updatedAt'[c] > updatedAt[c]]_vars

\* A second replace has returned success over the rows of a first one and
\* stored two nodes and their edge.
C11_Witness ==
    /\ Succeeded(Saver)
    /\ callCount[Saver] = 2
    /\ Len(snaps) = 2
    /\ snaps[1].state.nodes # EmptyBag
    /\ Cardinality(ElementsOf(req[Saver].canvasId)) = 2
    /\ Cardinality(ConnectionsOf(req[Saver].canvasId)) = 1

\* C12 (save outcome signalling): the route answers a save exactly once,
\* in the step that ends it: 200 only in the step in which replace returns
\* true; 207 only after replace returned false and in a step that moves the
\* canvas timestamp and nothing else of the store; 500 only after replace
\* returned false and in a step that changes nothing of the store. Replace
\* always returns true or false, and a save whose replace returned false
\* never stands answered with 200.
C12_SaveOutcome ==
    [][\A p \in Procs :
          LET c == req[p].canvasId
          IN /\ (response[p] = "pending") =>
                   \/ /\ response'[p] = "pending"
                      /\ pc'[p] # "done"
                   \/ /\ response'[p] = "200"
                      /\ result[p] = "pending" /\ result'[p] = "true"
                      /\ pc'[p] = "done"
                   \/ /\ response'[p] = "207"
                      /\ result[p] = "false" /\ result'[p] = "false"
                      /\ updatedAt'[c] > updatedAt[c]
                      /\ elements' = elements /\ connections' = connections
                      /\ pc'[p] = "done"
                   \/ /\ response'[p] = "500"
                      /\ result[p] = "false" /\ result'[p] = "false"
                      /\ updatedAt' = updatedAt
                      /\ elements' = elements /\ connections' = connections
                      /\ pc'[p] = "done"
             /\ (response[p] \in {"200", "207", "500"} /\ pc'[p] = "done") =>
                   response'[p] = response[p]
             /\ (pc'[p] = "done") => result'[p] \in {"true", "false"}
             /\ (result'[p] = "false") => response'[p] # "200"]_vars

\* A save failed after it had inserted a node, the timestamp-only update
\* went through, and the route answered 207.
C12_Witness ==
    /\ response[Saver] = "207"
    /\ result[Saver] = "false"
    /\ pc[Saver] = "done"
    /\ ElementsOf(req[Saver].canvasId) # {}
    /\ updatedAt[req[Saver].canvasId] > 0

\* ------------------------------------------------------------------------
\* Properties of the session handler
\* ------------------------------------------------------------------------
\* The step handles an inbound frame of an open socket.
FrameHandled == Quiet /\ lastOp'.op \in {"message", "invalid"}

\* The frame lacks a kind, a canvasId or a userId (a frame that is not JSON
\* lacks all three).
LacksRequired(op) == op.type = "" \/ op.canvasId = 0 \/ op.userId = 0

\* The step answers the frame with an error envelope to its sender, when the
\* sender's send works, and delivers nothing else to anyone.
ErrorOnly ==
    LET ch == lastOp'.ws
        err == Msg(ch, "error", lastOp'.canvasId, lastOp'.userId, {}, 0)
    IN /\ \A m \in BagToSet(outbox') : m = err
       /\ CopiesIn(err, outbox') = IF ch \in broken THEN 0 ELSE 1
       /\ calls' = {}

KindHandled(kind) == Quiet /\ lastOp'.op = "message" /\ lastOp'.type = kind

\* The channels, other than ch, that are registered on canvas c when the
\* envelope arrives, are open and whose send works.
OtherOpen(c, ch) ==
    {e.ws : e \in {x \in getCanvasConnections(canvasConnections, c) :
                      x.ws # ch /\ readyState'[x.ws] = "open" /\ x.ws \notin broken}}

\* The channels registered on no canvas but others than c.
OnlyElsewhere(c) ==
    {w \in Chans : /\ \E e \in canvasConnections : e.ws = w
                   /\ \A e \in canvasConnections : e.ws = w => e.canvasId # c}

\* C15 (join): after a join request of channel ch for (canvasId, userId), ch
\* is the entry of (canvasId, userId), ch was sent one active-users reply
\* listing exactly the other userIds registered on the canvas, and a
\* user-joined for userId went to every other open channel of the canvas
\* and not to ch.
C15_Join ==
    [][KindHandled("join-canvas") =>
          LET ch == lastOp'.ws
              c == lastOp'.canvasId
              u == lastOp'.userId
              others == {e.userId : e \in getCanvasConnections(canvasConnections, c)} \ {u}
              joined(w) == Msg(w, "user-joined", c, u, {}, 0)
          IN /\ MapGet(canvasConnections', c, u) = {Entry(c, u, ch)}
             /\ CopiesIn(Msg(ch, "active-users", c, 0, others, 0), outbox')
                    = IF ch \in broken THEN 0 ELSE 1
             /\ \A m \in BagToSet(outbox') : m.type = "active-users" => m.users = others
             /\ \A w \in OtherOpen(c, ch) : CopiesIn(joined(w), outbox') >= 1
             /\ CopiesIn(joined(ch), outbox') = 0]_vars

\* C16 (leave): after a leave request of a channel for (canvasId, userId), a
\* user-left for userId went to every other open channel of the canvas and
\* not to the sender, and the canvas has no entry for userId.
C16_Leave ==
    [][KindHandled("leave-canvas") =>
          LET ch == lastOp'.ws
              c == lastOp'.canvasId
              u == lastOp'.userId
          IN /\ \A w \in OtherOpen(c, ch) : CopiesIn(UserLeft(w, c, u), outbox') >= 1
             /\ CopiesIn(UserLeft(ch, c, u), outbox') = 0
             /\ MapGet(canvasConnections', c, u) = {}]_vars

\* C17 (relay): a canvas-update or cursor-position of user u on canvas c goes,
\* with its kind and payload, to every other open channel registered on c,
\* never back to the channel it came from and never to a channel registered
\* only on other canvases.
C17_Relay ==
    [][(KindHandled("canvas-update") \/ KindHandled("cursor-position")) =>
          LET ch == lastOp'.ws
              c == lastOp'.canvasId
              u == lastOp'.userId
              k == lastOp'.type
          IN /\ \A w \in OtherOpen(c, ch) :
                    \E p \in Payloads : /\ CopiesIn(Msg(w, k, c, u, {}, p), outbox') >= 1
                                        /\ \A m \in BagToSet(outbox') :
                                              (m.to = w /\ m.type = k) => m.payload = p
             /\ \A m \in BagToSet(outbox') :
                    m.type = k => /\ m.to # ch
                                  /\ m.to \notin OnlyElsewhere(c)]_vars

\* Another open channel is registered on the canvas of the last envelope.
OtherOnCanvas ==
    \E e \in canvasConnections : /\ e.canvasId = lastOp.canvasId
                                 /\ e.ws # lastOp.ws
                                 /\ e.userId # lastOp.userId
                                 /\ readyState[e.ws] = "open"
                                 /\ e.ws \notin broken

\* C18 (heartbeat): handling a heartbeat sets the alive flag of the channel it
\* came from, starts no broadcast, and delivers nothing to any channel but the
\* sender (whose only delivery is the acknowledgement of the registration).
C18_Heartbeat ==
    [][KindHandled("heartbeat") =>
          LET ch == lastOp'.ws
          IN /\ isAlive'[ch] = TRUE
             /\ calls' = {}
             /\ \A m \in BagToSet(outbox') :
                    m.to = ch /\ m.type = "connection-acknowledged"]_vars

C18_Witness ==
    /\ lastOp.op = "message"
    /\ lastOp.type = "heartbeat"
    /\ isAlive[lastOp.ws]
    /\ OtherOnCanvas

\* C19 (unknown kinds): a valid envelope whose kind the switch has no case for
\* gets no error envelope, starts no broadcast, delivers nothing to another
\* channel, and leaves the sending channel open with no close requested.
C19_UnknownKinds ==
    [][(\E k \in MsgTypes \ RecognizedKinds : KindHandled(k)) =>
          LET ch == lastOp'.ws
          IN /\ \A m \in BagToSet(outbox') : m.type # "error" /\ m.to = ch
             /\ calls' = {}
             /\ readyState'[ch] = "open"
             /\ \A cc \in closeCalls' : cc.ws # ch]_vars

C19_Witness ==
    /\ lastOp.op = "message"
    /\ lastOp.type \notin RecognizedKinds
    /\ readyState[lastOp.ws] = "open"
    /\ outbox # EmptyBag
    /\ OtherOnCanvas

\* The step ran the join branch: a user-joined broadcast was started.
JoinRan ==
    \E b \in calls' : b.type = "user-joined" /\ b.userId = lastOp'.userId
\* The step ran the leave branch: a user-left broadcast was started and the
\* entry of the pair is gone.
LeaveRan ==
    /\ \E b \in calls' : b.type = "user-left" /\ b.userId = lastOp'.userId
    /\ MapGet(canvasConnections', lastOp'.canvasId, lastOp'.userId) = {}
\* The step ran no branch: no broadcast, no active-users reply, and the
\* sender is the entry of the pair.
NothingRan ==
    /\ calls' = {}
    /\ \A m \in BagToSet(outbox') : m.type = "connection-acknowledged"
    /\ MapGet(canvasConnections', lastOp'.canvasId, lastOp'.userId)
           = {Entry(lastOp'.canvasId, lastOp'.userId, lastOp'.ws)}

\* C20 (as claimed): an envelope of kind `join` is handled as a join request
\* and one of kind `leave` as a leave request.
C20_WireKinds_Original ==
    [][/\ KindHandled("join") => JoinRan
       /\ KindHandled("leave") => LeaveRan]_vars

\* C20 (wire kinds): an envelope of kind `join-canvas` is handled as a join
\* request and one of kind `leave-canvas` as a leave request; envelopes of
\* kind `join` and `leave` run no branch of the switch.
C20_WireKinds ==
    [][/\ KindHandled("join-canvas") => JoinRan
       /\ KindHandled("leave-canvas") => LeaveRan
       /\ (KindHandled("join") \/ KindHandled("leave")) => NothingRan]_vars

C20_Witness ==
    /\ lastOp.op = "message"
    /\ lastOp.type = "leave"
    /\ Entry(lastOp.canvasId, lastOp.userId, lastOp.ws) \in canvasConnections
    /\ OtherOnCanvas

\* C22 (close removes only its own entries): when the close event of a
\* channel is handled, every entry that maps to another, open channel stays
\* in the registry and no user-left is broadcast for the pair of such an
\* entry; in particular the newer channel that replaced the closing one for
\* the same (canvasId, userId) stays registered.
C22_CloseOnlyOwnEntry ==
    [][(Quiet /\ lastOp'.op = "close") =>
          \A e \in canvasConnections :
              (e.ws # lastOp'.ws /\ readyState[e.ws] = "open")
              => /\ e \in canvasConnections'
                 /\ \A b \in calls' : ~(/\ b.type = "user-left"
                                        /\ b.canvasId = e.canvasId
                                        /\ b.userId = e.userId)]_vars

\* C23 (one channel, one registration): in every reachable state a channel
\* is the value of at most one (canvasId, userId) entry of the registry.
C23_OneRegistration ==
    \A e1, e2 \in canvasConnections : e1.ws = e2.ws => e1 = e2

\* ------------------------------------------------------------------------
\* Properties of edge resolution and stamping
\* ------------------------------------------------------------------------
\* The submitted elements with a kind whose canonical id is `id`, and those
\* that embed `id` as an alternate.
CanonicalOf(r, id) == {k \in WellFormed(r) : r.elements[k].id = id}
AliasOf(r, id) == {k \in WellFormed(r) : id \in Harvest(r.elements[k])}

\* The elements an id names: by canonical id first, else by alternate.
Named(r, id) == IF CanonicalOf(r, id) # {} THEN CanonicalOf(r, id) ELSE AliasOf(r, id)

\* The database ids of the rows stored for the elements ks of the call.
DbIdsOf(r, ks) == {row.id : row \in UNION {RowOf(r.canvasId, r.elements[k].id) : k \in ks}}

\* The rows stored for edge i of the call of p.
EdgeRows(p, i) == {row \in WrittenBy(p, ConnectionsOf(req[p].canvasId)) : row.idx = i}

\* An end of an edge is stated by an alternate id only: the id is the
\* canonical id of no submitted element and some element embeds it.
ByAlias(r, id) == id \notin IdsOf(r.elements) /\ AliasOf(r, id) # {}

\* C24 (alias fallback): after a successful replace, an edge each of whose
\* ends is stated directly by the canonical id or by a harvested alternate id
\* of a submitted node, and one of them by an alternate id, is stored with
\* the durable ids of those nodes as its source and target.
C24_AliasFallback ==
    \A p \in Procs :
        Succeeded(p) =>
            LET r == req[p]
            IN \A i \in DOMAIN r.connections :
                  LET e == r.connections[i]
                  IN (/\ Named(r, e.source) # {}
                      /\ Named(r, e.target) # {}
                      /\ ByAlias(r, e.source) \/ ByAlias(r, e.target))
                     => \E row \in EdgeRows(p, i) :
                           /\ row.sourceId \in DbIdsOf(r, Named(r, e.source))
                           /\ row.targetId \in DbIdsOf(r, Named(r, e.target))

\* The elements the style keys of one end name.
NamedByStyle(r, clientIdKey, idKey) == Named(r, clientIdKey) \cup Named(r, idKey)

\* One end of an edge can be resolved: directly by a canonical id, or, its
\* direct id naming nothing, by one of its style keys.
EndResolvable(r, direct, clientIdKey, idKey) ==
    \/ CanonicalOf(r, direct) # {}
    \/ Named(r, direct) = {} /\ NamedByStyle(r, clientIdKey, idKey) # {}

\* The elements such an end may resolve to.
EndCandidates(r, direct, clientIdKey, idKey) ==
    IF CanonicalOf(r, direct) # {} THEN CanonicalOf(r, direct)
    ELSE NamedByStyle(r, clientIdKey, idKey)

\* An end whose direct id names nothing and whose style holds both keys.
BothKeys(r, direct, clientIdKey, idKey) ==
    Named(r, direct) = {} /\ clientIdKey # None /\ idKey # None

\* C25 (every alternate key is tried): after a successful replace, an edge
\* with an end whose direct id names nothing and whose style holds both
\* alternate keys, one of which names a submitted node, is stored with a node
\* named by one of the keys at that end (the other end being resolvable too).
C25_EveryAlternateTried ==
    \A p \in Procs :
        Succeeded(p) =>
            LET r == req[p]
            IN \A i \in DOMAIN r.connections :
                  LET e == r.connections[i]
                      st == e.style
                  IN (/\ EndResolvable(r, e.source, st.sourceClientId, st.sourceId)
                      /\ EndResolvable(r, e.target, st.targetClientId, st.targetId)
                      /\ \/ BothKeys(r, e.source, st.sourceClientId, st.sourceId)
                         \/ BothKeys(r, e.target, st.targetClientId, st.targetId))
                     => \E row \in EdgeRows(p, i) :
                           /\ row.sourceId \in DbIdsOf(r, EndCandidates(r, e.source,
                                                       st.sourceClientId, st.sourceId))
                           /\ row.targetId \in DbIdsOf(r, EndCandidates(r, e.target,
                                                       st.targetClientId, st.targetId))

\* The elements an end resolves to by the stated priority: the direct id when
\* the primary map has it; otherwise the client-id key of the style when it
\* names a node, before the id key.
ByPriority(r, direct, clientIdKey, idKey) ==
    IF CanonicalOf(r, direct) # {} THEN CanonicalOf(r, direct)
    ELSE IF Named(r, clientIdKey) # {} THEN Named(r, clientIdKey)
    ELSE Named(r, idKey)

\* C26 (resolution priority): every edge a replace stored has as source and
\* target the nodes its ends name by priority: the direct id if the primary
\* map has it, else style.sourceClientId / targetClientId before
\* style.sourceId / targetId, a canonical id before an alternate id.
C26_ResolutionPriority ==
    \A p \in Procs :
        Returned(p) =>
            LET r == req[p]
            IN \A i \in DOMAIN r.connections :
                  LET e == r.connections[i]
                      st == e.style
                  IN \A row \in EdgeRows(p, i) :
                        /\ {row.sourceId} = DbIdsOf(r, ByPriority(r, e.source,
                                                    st.sourceClientId, st.sourceId))
                        /\ {row.targetId} = DbIdsOf(r, ByPriority(r, e.target,
                                                    st.targetClientId, st.targetId))

\* An edge was stored whose source names nothing directly and whose two
\* style keys name different nodes.
C26_Witness ==
    /\ Succeeded(Saver)
    /\ Len(req[Saver].elements) = 2
    /\ Len(req[Saver].connections) = 1
    /\ LET e == req[Saver].connections[1]
       IN /\ Named(req[Saver], e.source) = {}
          /\ Named(req[Saver], e.style.sourceClientId) # {}
          /\ Named(req[Saver], e.style.sourceId) # {}
          /\ Named(req[Saver], e.style.sourceClientId) # Named(req[Saver], e.style.sourceId)
    /\ EdgeRows(Saver, 1) # {}

\* C27 (node stamping): the row a replace inserts for a submitted node holds
\* the node's id under content.clientId, content._clientId and style.clientId,
\* whatever the submitted payloads held there, and the load reads that id
\* back as the node's client id.
C27_NodeStamping ==
    [][\A p \in Procs :
          (pc[p] = "insertElements" /\ elements' # elements) =>
             LET el == req[p].elements[cursor[p] + 1]
             IN \A row \in elements' \ elements :
                   /\ row.content.clientId = el.id
                   /\ row.content._clientId = el.id
                   /\ row.style.clientId = el.id
                   /\ ElementClientId(row) = el.id]_vars

\* A node that embedded another id under each kind of key was stored by a
\* call made straight to the storage.
C27_Witness ==
    /\ Succeeded(Saver)
    /\ response[Saver] = "none"
    /\ Len(req[Saver].elements) = 2
    /\ Harvest(req[Saver].elements[2]) = {NodeId(1)}
    /\ RowOf(req[Saver].canvasId, NodeId(2)) # {}

\* C28 (edge stamping): every edge a replace stored holds, in its style, the
\* durable ids stored as its source and target references under sourceDbId /
\* targetDbId and the ephemeral ids of those two nodes under sourceClientId /
\* targetClientId.
C28_EdgeStamping ==
    \A p \in Procs :
        Returned(p) =>
            LET c == req[p].canvasId
            IN \A row \in WrittenBy(p, ConnectionsOf(c)) :
                  /\ row.style.sourceDbId = row.sourceId
                  /\ row.style.targetDbId = row.targetId
                  /\ row.sourceId \in {x.id : x \in RowOf(c, row.style.sourceClientId)}
                  /\ row.targetId \in {x.id : x \in RowOf(c, row.style.targetClientId)}

\* The submitted elements that have a kind and a content payload.
Complete(r) == {k \in DOMAIN r.N : r.N[k].hasType /\ r.N[k].hasContent}

\* Edge i of the call joins, by canonical ids, two of the elements ks.
Among(r, i, ks) ==
    /\ r.E[i].source \in {r.N[k].id : k \in ks}
    /\ r.E[i].target \in {r.N[k].id : k \in ks}

\* C30 (as claimed): when no statement throws, a replace returns success, has
\* stored no element that lacks a kind or a content payload, and has stored
\* every other element and every edge among those.
C30_MalformedSkipped_Original ==
    \A p \in Procs :
        Returned(p) =>
            LET r == req[p]
                c == r.canvasId
            IN /\ result[p] = "true"
               /\ \A k \in DOMAIN r.N :
                     Cardinality(RowOf(c, r.N[k].id)) = IF k \in Complete(r) THEN 1 ELSE 0
               /\ \A i \in DOMAIN r.E : Among(r, i, Complete(r)) => EdgeRows(p, i) # {}

\* The submitted elements that have a kind.
Typed(r) == {k \in DOMAIN r.N : r.N[k].hasType}

\* C30 (malformed elements are skipped): when no statement throws, a replace
\* returns success, has stored no element that lacks a kind, and has stored
\* every element that has a kind, with or without a content payload, and
\* every edge among those.
C30_MalformedSkipped ==
    \A p \in Procs :
        Returned(p) =>
            LET r == req[p]
                c == r.canvasId
            IN /\ result[p] = "true"
               /\ \A k \in DOMAIN r.N :
                     Cardinality(RowOf(c, r.N[k].id)) = IF k \in Typed(r) THEN 1 ELSE 0
               /\ \A i \in DOMAIN r.E : Among(r, i, Typed(r)) => EdgeRows(p, i) # {}

\* A call straight to the storage with an element without a kind and an
\* element with a kind and no content payload: the second is stored with its
\* edge, the first is not.
C30_Witness ==
    /\ Succeeded(Saver)
    /\ response[Saver] = "none"
    /\ Len(req[Saver].N) = 2
    /\ ~req[Saver].N[1].hasType
    /\ req[Saver].N[2].hasType /\ ~req[Saver].N[2].hasContent
    /\ RowOf(req[Saver].canvasId, NodeId(1)) = {}
    /\ RowOf(req[Saver].canvasId, NodeId(2)) # {}
    /\ EdgeRows(Saver, 1) # {}

\* C29 (edge validity): whenever no replace is in flight, the source and
\* target references of every stored edge name element rows that exist in
\* the edge's own canvas.
C29_EdgeValidity ==
    (\A p \in Procs : pc[p] \in {"idle", "done"}) =>
        \A row \in connections :
            /\ Joined(row.canvasId, row.sourceId) # {}
            /\ Joined(row.canvasId, row.targetId) # {}

\* ------------------------------------------------------------------------
\* Properties of the permission checks
\* ------------------------------------------------------------------------
\* C21 (owner access): whenever the access check or the save permission
\* check has read a canvas, of any visibility, and the asking user is the
\* canvas's owner, the check grants.
C21_OwnerAccess ==
    (/\ check.op \in {"access", "save"}
     /\ check.canvas # NoCanvas
     /\ check.canvas.userId = check.userId)
        => check.granted

\* The owner of a private canvas, not a collaborator, was granted access.
C21_Witness ==
    /\ check.op = "access"
    /\ check.canvas # NoCanvas
    /\ check.canvas.userId = check.userId
    /\ check.canvas.visibility = "private"
    /\ ~check.canvas.isPublic
    /\ ~check.isCollaborator
    /\ check.granted

\* ------------------------------------------------------------------------
\* Properties of the silent-drop policy
\* ------------------------------------------------------------------------
\* One end of an edge handed to replace names a stored node: by its direct
\* id, or, the direct id naming nothing, by a style key.
EndNames(r, direct, clientIdKey, idKey) ==
    direct # None /\ EndResolvable(r, direct, clientIdKey, idKey)

\* Edge i handed to replace is resolvable: neither end is missing and both
\* name a stored node.
Resolvable(r, i) ==
    LET e == r.connections[i]
    IN /\ e.source # None
       /\ e.target # None
       /\ EndNames(r, e.source, e.style.sourceClientId, e.style.sourceId)
       /\ EndNames(r, e.target, e.style.targetClientId, e.style.targetId)

\* The call drops an edge.
SomeDropped(r) == \E i \in DOMAIN r.connections : ~Resolvable(r, i)

\* C31 (dropped edges do not fail the save): a replace one or more of whose
\* edges have a missing end or an end that names no node ends by returning
\* success, in a step that moves the canvas timestamp forward, with one row
\* for every submitted node that has a kind, one row for every resolvable
\* edge, joining the rows of the nodes its ends name, and no row for an edge
\* that is not resolvable.
C31_DroppedEdgesDoNotFail ==
    [][\A p \in Procs :
          (pc[p] # "done" /\ pc'[p] = "done" /\ SomeDropped(req[p])) =>
            LET r == req[p]
                c == r.canvasId
            IN /\ result'[p] = "true"
               /\ updatedAt'[c] > updatedAt[c]
               /\ \A k \in WellFormed(r) : Cardinality(RowOf(c, r.elements[k].id)') = 1
               /\ \A i \in DOMAIN r.connections :
                     LET rows == {row \in ConnectionsOf(c)' : row.idx = i}
                         e == r.connections[i]
                     IN IF Resolvable(r, i)
                        THEN /\ Cardinality(rows) = 1
                             /\ \A row \in rows :
                                   /\ {row.sourceId} = DbIdsOf(r, EndCandidates(r, e.source,
                                                        e.style.sourceClientId, e.style.sourceId))'
                                   /\ {row.targetId} = DbIdsOf(r, EndCandidates(r, e.target,
                                                        e.style.targetClientId, e.style.targetId))'
                        ELSE rows = {}]_vars

\* A call with one edge that names no node at one end and one edge between
\* two stored nodes returned success: both nodes and the second edge are
\* stored, the first edge is not.
C31_Witness ==
    /\ Succeeded(Saver)
    /\ Len(req[Saver].connections) = 2
    /\ req[Saver].connections[1].target = Ghost
    /\ ~Resolvable(req[Saver], 1)
    /\ Resolvable(req[Saver], 2)
    /\ Cardinality(ElementsOf(req[Saver].canvasId)) = 2
    /\ EdgeRows(Saver, 1) = {}
    /\ EdgeRows(Saver, 2) # {}
    /\ updatedAt[req[Saver].canvasId] > 0

\* ------------------------------------------------------------------------
\* Properties of the liveness monitor
\* ------------------------------------------------------------------------
\* The step is one run of the monitor.
TickRan == Quiet /\ lastOp'.op = "tick"

\* terminate() was called on the channel in this step.
TerminatedNow(ch) ==
    /\ CloseCall(ch, AbnormalClosure) \in closeCalls'
    /\ readyState'[ch] # "open"

\* C32 (probe cycle): at each tick every connected channel whose alive flag
\* is false is terminated and is sent no probe; every other connected channel
\* has its alive flag set to false and, when its send works, is sent one
\* probe and is not terminated; a channel whose probe send throws is
\* terminated in that same tick.
C32_ProbeCycle ==
    [][TickRan =>
          \A ch \in Chans :
              readyState[ch] = "open" =>
                 IF ~isAlive[ch]
                 THEN /\ TerminatedNow(ch)
                      /\ CopiesIn(Ping(ch), outbox') = 0
                 ELSE /\ ~isAlive'[ch]
                      /\ IF ch \in broken
                         THEN TerminatedNow(ch)
                         ELSE /\ CopiesIn(Ping(ch), outbox') = 1
                              /\ readyState'[ch] = "open"
                              /\ \A cc \in closeCalls' : cc.ws # ch]_vars

\* A tick found one channel silent since the tick before and terminated it,
\* and probed another that had answered.
C32_Witness ==
    /\ lastOp.op = "tick"
    /\ \E a, b \in Chans :
          /\ a # b
          /\ a \in terminated
          /\ CloseCall(a, AbnormalClosure) \in closeCalls
          /\ readyState[a] = "closing"
          /\ readyState[b] = "open"
          /\ ~isAlive[b]
          /\ CopiesIn(Ping(b), outbox) = 1

\* The step handles a probe response of an open channel.
PongHandled == Quiet /\ lastOp'.op = "pong"

\* The alive flag of a channel is cleared by the monitor only.
ClearedByTickOnly == \A ch \in Chans : (isAlive[ch] /\ ~isAlive'[ch]) => TickRan

\* C33 (as claimed): every inbound frame and every probe response sets the
\* alive flag of its channel; the flag stays set until a tick, and an open
\* channel whose flag is set when the tick comes is not terminated by it.
C33_AliveReset_Original ==
    [][/\ (FrameHandled \/ PongHandled) => isAlive'[lastOp'.ws]
       /\ ClearedByTickOnly
       /\ TickRan => \A ch \in Chans :
                        (readyState[ch] = "open" /\ isAlive[ch]) => ~TerminatedNow(ch)]_vars

\* C33 (alive reset): every accepted envelope and every probe response sets
\* the alive flag of its channel, and a rejected frame leaves the flag as it
\* was; the flag stays set until a tick, and an open channel whose flag is
\* set when the tick comes is terminated by it only when its probe send
\* throws.
C33_AliveReset ==
    [][/\ ((FrameHandled /\ lastOp'.op = "message") \/ PongHandled) => isAlive'[lastOp'.ws]
       /\ (FrameHandled /\ lastOp'.op = "invalid") => isAlive' = isAlive
       /\ ClearedByTickOnly
       /\ TickRan => \A ch \in Chans :
                        (readyState[ch] = "open" /\ isAlive[ch]) =>
                            (TerminatedNow(ch) <=> ch \in broken)]_vars

\* A channel the last tick probed has had a frame rejected, and its flag is
\* still cleared.
C33_Witness ==
    /\ lastOp.op = "invalid"
    /\ readyState[lastOp.ws] = "open"
    /\ ~isAlive[lastOp.ws]
    /\ lastOp.ws \notin terminated

\* The channel is dead: its close is under way (the peer closed, or the
\* monitor terminated it after two silent ticks) or done.
Dead(ch) == readyState[ch] \in {"closing", "closed"}

\* C34 (bounded staleness): a registry entry whose channel is dead is
\* removed from the registry by the ticks and close events that follow,
\* whether or not anything is broadcast on its canvas.
C34_BoundedStaleness ==
    \A c \in CanvasIds, u \in UserIds, ch \in Chans :
        (Entry(c, u, ch) \in canvasConnections /\ Dead(ch))
            ~> (Entry(c, u, ch) \notin canvasConnections)

\* ------------------------------------------------------------------------
\* Properties of the broadcast
\* ------------------------------------------------------------------------
\* The entries of the canvas, when broadcast b started, that b does not
\* exclude.
Recipients(b) == {e \in b.conns : ~(b.exclude # 0 /\ e.userId = b.exclude)}

\* The delivery of b to entry e fails: the channel is not open, or its send
\* throws.
DeliveryFails(b, e) == b.rs[e.ws] # "open" \/ e.ws \in broken

\* The copies of b's message delivered to entry e.
Delivered(b, e) ==
    CopiesIn(Msg(e.ws, b.type, b.canvasId, b.userId, {}, b.payload), outbox)

\* C35 (broadcast self-healing): when the handler that made a broadcast has
\* returned, every entry the broadcast did not exclude and whose channel was
\* not open or whose send threw got nothing and is no longer registered, and
\* every entry the broadcast did not exclude and whose delivery succeeded
\* got the message and is still registered: all the entries the canvas had
\* when the broadcast started were visited.
C35_SelfHealing ==
    \A b \in calls :
        \A e \in Recipients(b) :
            IF DeliveryFails(b, e)
            THEN e \notin canvasConnections /\ Delivered(b, e) = 0
            ELSE e \in canvasConnections /\ Delivered(b, e) >= 1

\* A relay found the entry of a channel whose send throws and removed it;
\* the sender's entry is still there.
C35_Witness ==
    /\ lastOp.op = "message"
    /\ lastOp.type = "canvas-update"
    /\ Entry(lastOp.canvasId, lastOp.userId, lastOp.ws) \in canvasConnections
    /\ \E b \in calls :
          \E e \in Recipients(b) :
              /\ b.rs[e.ws] = "open"
              /\ e.ws \in broken
              /\ e.ws # lastOp.ws
              /\ e \notin canvasConnections

\* ------------------------------------------------------------------------
\* Properties of leaving
\* ------------------------------------------------------------------------
\* C36 (leave is sticky): as long as a channel whose leave request for a
\* canvas was handled has sent no new join request for it, no entry of that
\* canvas maps to the channel and no event of that canvas is broadcast to it,
\* whatever heartbeat, canvas-update, cursor-position or unknown-kind
\* messages it has sent since.
C36_LeaveSticky ==
    \A pr \in left :
        /\ \A e \in canvasConnections : ~(e.canvasId = pr[2] /\ e.ws = pr[1])
        /\ \A b \in calls :
              b.canvasId = pr[2] =>
                 CopiesIn(Msg(pr[1], b.type, b.canvasId, b.userId, {}, b.payload), outbox) = 0

\* ------------------------------------------------------------------------
\* Properties of the load
\* ------------------------------------------------------------------------
\* The returned nodes whose id field is `id`.
ReturnedWithId(st, id) == {n \in st.elements : n.id = id}

\* C37 (load consistency): in the state a load returns after a successful
\* replace of nodes N and edges E whose endpoints are ids of nodes of N, the
\* source and the target of every returned edge are each the id field of
\* exactly one returned node.
C37_LoadConsistency ==
    \A p \in Procs :
        (Succeeded(p) /\ EndpointsInN(req[p])) =>
            LET st == LoadState(req[p].canvasId)
            IN \A e \in st.connections :
                  /\ Cardinality(ReturnedWithId(st, e.source)) = 1
                  /\ Cardinality(ReturnedWithId(st, e.target)) = 1

\* ------------------------------------------------------------------------
\* Frame properties
\* ------------------------------------------------------------------------
\* The step starts the call of p or runs one of its statements, the one that
\* throws and the route's fallback update included.
CallStep(p) == pc'[p] # pc[p] \/ cursor'[p] # cursor[p]

\* C38 (replace frame): no step of a replace on a canvas, whether the call
\* goes on to succeed or to fail, changes the stored nodes, the stored edges
\* or the timestamp of any other canvas.
C38_ReplaceFrame ==
    [][\A p \in Procs :
          CallStep(p) =>
             \A c \in CanvasIds \ {req'[p].canvasId} :
                /\ ElementsOf(c)' = ElementsOf(c)
                /\ ConnectionsOf(c)' = ConnectionsOf(c)
                /\ updatedAt'[c] = updatedAt[c]]_vars

\* A save of canvas 1 failed after it had inserted a node and was answered
\* 207, after a save of canvas 2 had stored two nodes and an edge, which are
\* still there.
C38_Witness ==
    /\ Returned(Saver)
    /\ callCount[Saver] = 2
    /\ req[Saver].canvasId = 1
    /\ response[Saver] = "207"
    /\ ElementsOf(1) # {}
    /\ Cardinality(ElementsOf(2)) = 2
    /\ Cardinality(ConnectionsOf(2)) = 1
    /\ updatedAt[2] > 0
    /\ updatedAt[1] > updatedAt[2]

\* ------------------------------------------------------------------------
\* Isolation of canvases
\* ------------------------------------------------------------------------
\* The kinds of message a broadcast carries.
BroadcastKinds == {"user-joined", "user-left", "canvas-update", "cursor-position"}

\* The registry of one canvas.
RegistryOf(reg, d) == {e \in reg : e.canvasId = d}

\* C39 (canvas isolation): when a handler (join, leave, relay or close) has
\* broadcast, every broadcast message it delivered went to a channel that had
\* an entry on the message's canvas when the broadcast started, and the
\* registry of every canvas the handler did not broadcast for is as it was
\* before the handler.
C39_CanvasIsolation ==
    [][calls' # {} =>
          /\ \A m \in BagToSet(outbox') :
                m.type \in BroadcastKinds =>
                   \E b \in calls' :
                      /\ b.canvasId = m.canvasId
                      /\ b.type = m.type
                      /\ \E e \in RegistryOf(b.conns, m.canvasId) :
                            e.ws = m.to /\ e \in canvasConnections'
          /\ \A d \in CanvasIds :
                (\A b \in calls' : b.canvasId # d) =>
                   RegistryOf(canvasConnections', d) = RegistryOf(canvasConnections, d)]_vars

\* A relay on a canvas removed the entry of a dead channel from that canvas;
\* the same channel's entry on the other canvas, as dead, is still there.
C39_Witness ==
    /\ lastOp.op = "message"
    /\ lastOp.type = "canvas-update"
    /\ \E b \in calls :
          /\ b.canvasId = lastOp.canvasId
          /\ \E e \in b.conns :
                /\ e.ws # lastOp.ws
                /\ readyState[e.ws] # "open"
                /\ e \notin canvasConnections
                /\ \E f \in canvasConnections :
                      f.ws = e.ws /\ f.canvasId # b.canvasId

\* ------------------------------------------------------------------------
\* The two representations of visibility
\* ------------------------------------------------------------------------
\* C40 (visibility flag consistency): in every stored canvas, isPublic is
\* true exactly when visibility is "public".
C40_FlagConsistency ==
    \A c \in CanvasIds :
        canvasRows[c] # NoCanvas =>
            (canvasRows[c].isPublic <=> canvasRows[c].visibility = "public")

====
